---- MODULE Spec2Model ----
(***************************************************************************)
(* Tumor nanobot simulation: the tumor/immune cell population              *)
(* (backend/tumor_environment.py) and the nanobot agent state machine,     *)
(* the queen and the model step (backend/nanobot_simulation.py).           *)
(*                                                                         *)
(* The program computes with floats; the model uses exact fixed point:     *)
(*   lengths and positions        1 um                                     *)
(*   time (dt, durations, ages)   0.1 min                                  *)
(*   oxygen                       1 mmHg                                   *)
(*   drug payload / delivery      1 ug                                     *)
(*   accumulated_drug, lethal     1e-7 ug                                  *)
(*   resistance_level             1e-3                                     *)
(*   drug_sensitivity             1e-3                                     *)
(*   cytotoxicity, activation     1e-1                                     *)
(*   mutation_rate                1e-2                                     *)
(* With these units every product the cell code forms is an integer.       *)
(***************************************************************************)
EXTENDS Integers, Sequences, FiniteSets, TLC

VARIABLES
    cells,      \* TumorGeometry.tumor_cells : cell id -> TumorCell
    immune,     \* TumorGeometry.immune_cells: immune id -> ImmuneCell
    nanobots,   \* TumorNanobotModel.nanobots: nanobot id -> NanobotAgent
    geometry,   \* TumorGeometry: tumor_radius and vessels, fixed for a run
    dt,         \* Microenvironment.dt, fixed for a run
    policy,     \* io_client present and api_enabled (decision policy usable)
    errors,     \* len(TumorNanobotModel.errors)
    calls,      \* number of cell/immune operations executed so far
    steps,      \* number of nanobot steps executed so far (SpecExposure: the
                \* timesteps of the absorb_drug calls so far, added up)
    model,      \* TumorNanobotModel: step_count and the position inside step()
    twin,       \* the same run (same seed and config) without a queen
    op,         \* the operation that produced the current state
    rng,        \* the process-wide generators np.random and random (main.py
                \* seeds both together): the values they return after the
                \* seeding and how many of them have been taken
    legs,       \* the simulations main.py has started: what each has recorded
    microenv,   \* Microenvironment.substrates: the fields of a run whose grid is
                \* modelled voxel by voxel (SpecField)
    scan,       \* what load_brats_segmentation returned: the label array and its
                \* voxel spacing (SpecBrats)
    reloaded    \* history: the drug each nanobot has taken on in _reload_drug
                \* since its construction (SpecBooks)

vars == <<cells, immune, nanobots, geometry, dt, policy, errors, calls, steps, op,
          model, twin, rng, legs, microenv, scan, reloaded>>

----------------------------------------------------------------------------
(* Bounds of the model *)

\* Cell and immune operations, nanobot steps and logged errors of one behaviour
MaxCalls == 4
MaxSteps == 33
MaxErrors == 1
\* Model steps of one behaviour: of a single run, and of the paired runs
MaxModelSteps == 2
MaxPairSteps == 12

None == 0

----------------------------------------------------------------------------
(* Vectors on the 1 um lattice *)

Abs(x) == IF x < 0 THEN -x ELSE x
Sgn(x) == IF x < 0 THEN -1 ELSE IF x > 0 THEN 1 ELSE 0
Min(a, b) == IF a <= b THEN a ELSE b
Max(a, b) == IF a >= b THEN a ELSE b

\* The element of a set of one element
Only(S) == CHOOSE x \in S : TRUE

VSub(p, q) == <<p[1] - q[1], p[2] - q[2]>>
VAdd(p, q) == <<p[1] + q[1], p[2] + q[2]>>
Norm2(v) == v[1] * v[1] + v[2] * v[2]
Dist2(p, q) == Norm2(VSub(p, q))

\* round(len * x / |v|) for a component x of v /= 0, rounded half up in magnitude:
\* the largest k with (2k - 1) * |v| <= 2 * len * |x|.
ScaleComp(x, n2, len) ==
    LET a == Abs(x)
        Fits(k) == (2 * k - 1) * (2 * k - 1) * n2 <= 4 * len * len * a * a
        k == CHOOSE j \in 0..len : (j = 0 \/ Fits(j)) /\ (j = len \/ ~Fits(j + 1))
    IN  Sgn(x) * k

\* v / np.linalg.norm(v) * len
Scale(v, len) == <<ScaleComp(v[1], Norm2(v), len), ScaleComp(v[2], Norm2(v), len)>>

\* round(num / den), den > 0, num >= 0
RoundDiv(num, den) == (2 * num + den) \div (2 * den)

----------------------------------------------------------------------------
(* TumorCell: per-type parameters *)

CellTypes == {"stem_cell", "differentiated", "resistant", "invasive"}
Phases == {"viable", "hypoxic", "necrotic", "apoptotic"}

hypoxic_threshold(t) ==
    CASE t = "stem_cell" -> 8 [] t = "differentiated" -> 10
      [] t = "resistant" -> 9 [] t = "invasive" -> 12

necrotic_time_threshold(t) ==
    CASE t = "stem_cell" -> 600 [] t = "differentiated" -> 300
      [] t = "resistant" -> 450 [] t = "invasive" -> 200

initial_drug_sensitivity(t) ==
    CASE t = "stem_cell" -> 300 [] t = "differentiated" -> 1000
      [] t = "resistant" -> 500 [] t = "invasive" -> 1200

lethal_drug_dose(t) ==
    CASE t = "stem_cell" -> 20000000 [] t = "differentiated" -> 5000000
      [] t = "resistant" -> 10000000 [] t = "invasive" -> 3000000

initial_resistance_level(t) ==
    CASE t = "stem_cell" -> 800 [] t = "differentiated" -> 100
      [] t = "resistant" -> 600 [] t = "invasive" -> 200

mutation_rate(t) ==
    CASE t = "stem_cell" -> 1 [] t = "differentiated" -> 5
      [] t = "resistant" -> 10 [] t = "invasive" -> 15

\* TumorCell.__init__
NewTumorCell(pos, phase, t) ==
    [ position |-> pos, phase |-> phase, cell_type |-> t,
      hypoxic_duration |-> 0,
      drug_sensitivity |-> initial_drug_sensitivity(t),
      accumulated_drug |-> 0,
      resistance_level |-> initial_resistance_level(t),
      is_alive |-> TRUE, time_of_death |-> "none", generation |-> 0 ]

\* A draw "np.random.random() < p" with p = num/den: the outcomes it can have.
\* random() lies in [0, 1): the draw can succeed iff p > 0 and can fail iff p < 1.
Draws(num, den) == {b \in BOOLEAN : (b => num > 0) /\ (~b => num < den)}

\* update_oxygen_status counting only the current call ("= dt" for "+= dt")
update_oxygen_status_restart(c, oxygen, dtv) ==
    IF ~c.is_alive THEN c
    ELSE IF oxygen < hypoxic_threshold(c.cell_type)
    THEN IF dtv > necrotic_time_threshold(c.cell_type)
         THEN [c EXCEPT !.phase = "necrotic", !.hypoxic_duration = dtv,
                        !.is_alive = FALSE, !.time_of_death = "necrosis"]
         ELSE [c EXCEPT !.phase = "hypoxic", !.hypoxic_duration = dtv]
    ELSE IF c.phase = "hypoxic"
    THEN [c EXCEPT !.phase = "viable", !.hypoxic_duration = 0]
    ELSE c

\* update_oxygen_status without the reset of hypoxic_duration when oxygen is
\* restored: hypoxic time adds up over separate episodes
update_oxygen_status_cumulative(c, oxygen, dtv) ==
    IF ~c.is_alive THEN c
    ELSE IF oxygen < hypoxic_threshold(c.cell_type)
    THEN LET d == c.hypoxic_duration + dtv IN
         IF d > necrotic_time_threshold(c.cell_type)
         THEN [c EXCEPT !.phase = "necrotic", !.hypoxic_duration = d,
                        !.is_alive = FALSE, !.time_of_death = "necrosis"]
         ELSE [c EXCEPT !.phase = "hypoxic", !.hypoxic_duration = d]
    ELSE IF c.phase = "hypoxic"
    THEN [c EXCEPT !.phase = "viable"]
    ELSE c

\* TumorCell.update_oxygen_status(oxygen_concentration, dt)
update_oxygen_status(c, oxygen, dtv) ==
    IF ~c.is_alive THEN c
    ELSE IF oxygen < hypoxic_threshold(c.cell_type)
    THEN LET d == c.hypoxic_duration + dtv IN
         IF d > necrotic_time_threshold(c.cell_type)
         THEN [c EXCEPT !.phase = "necrotic", !.hypoxic_duration = d,
                        !.is_alive = FALSE, !.time_of_death = "necrosis"]
         ELSE [c EXCEPT !.phase = "hypoxic", !.hypoxic_duration = d]
    ELSE IF c.phase = "hypoxic"
    THEN [c EXCEPT !.phase = "viable", !.hypoxic_duration = 0]
    ELSE c

\* 1 ug in the unit of accumulated_drug
UgUnit == 1000 * 10000

\* enhanced_amount = amount * 5.0
ProximityMultiplier == 5

\* lethal_drug_dose * (1.0 + resistance_level)
lethal_threshold(c) ==
    (lethal_drug_dose(c.cell_type) \div 1000) * (1000 + c.resistance_level)

\* accumulate_drug testing the resistance-adjusted threshold of absorb_drug
accumulate_drug_adjusted(c, amount) ==
    IF ~c.is_alive THEN c
    ELSE LET acc == c.accumulated_drug + amount * ProximityMultiplier * UgUnit IN
         IF acc >= lethal_threshold(c)
         THEN [c EXCEPT !.accumulated_drug = acc, !.phase = "apoptotic",
                        !.is_alive = FALSE, !.time_of_death = "apoptosis"]
         ELSE [c EXCEPT !.accumulated_drug = acc]

\* TumorCell.accumulate_drug(amount): the cell after the call
accumulate_drug(c, amount) ==
    IF ~c.is_alive THEN c
    ELSE LET acc == c.accumulated_drug + amount * ProximityMultiplier * UgUnit IN
         IF acc >= lethal_drug_dose(c.cell_type)
         THEN [c EXCEPT !.accumulated_drug = acc, !.phase = "apoptotic",
                        !.is_alive = FALSE, !.time_of_death = "apoptosis"]
         ELSE [c EXCEPT !.accumulated_drug = acc]

\* The boolean accumulate_drug returns: True from the branch of the threshold
\* test, False from the early return of a dead cell and at the end
accumulate_drug_killed(c, amount) ==
    IF ~c.is_alive THEN FALSE
    ELSE c.accumulated_drug + amount * ProximityMultiplier * UgUnit
            >= lethal_drug_dose(c.cell_type)

\* The mutation draws absorb_drug can make: drug_absorbed > 0 and
\* random() < mutation_rate * dt
MutationDraws(c, conc, dtv) ==
    LET absorbed == conc * (1000 - c.resistance_level) * c.drug_sensitivity * dtv
    IN  IF absorbed > 0
        THEN Draws(mutation_rate(c.cell_type) * dtv, 1000)
        ELSE {FALSE}

\* absorb_drug with the lethal check written "accumulated_drug > lethal_threshold":
\* a cell exactly at the threshold survives
absorb_drug_strict(c, conc, dtv, mutate) ==
    IF ~c.is_alive THEN c
    ELSE LET absorbed == conc * (1000 - c.resistance_level) * c.drug_sensitivity * dtv
             acc == c.accumulated_drug + absorbed
             res == IF mutate THEN Min(1000, c.resistance_level + 10)
                    ELSE c.resistance_level
             sens == IF mutate THEN Max(100, c.drug_sensitivity - 10)
                     ELSE c.drug_sensitivity
             c1 == [c EXCEPT !.accumulated_drug = acc, !.resistance_level = res,
                             !.drug_sensitivity = sens]
         IN  IF acc > lethal_threshold(c1)
             THEN [c1 EXCEPT !.phase = "apoptotic", !.is_alive = FALSE,
                             !.time_of_death = "apoptosis"]
             ELSE c1

\* absorb_drug absorbing the same amount in every call, whatever the timestep
absorb_drug_untimed(c, conc, dtv, mutate) ==
    IF ~c.is_alive THEN c
    ELSE LET absorbed == conc * (1000 - c.resistance_level) * c.drug_sensitivity
             acc == c.accumulated_drug + absorbed
             res == IF mutate THEN Min(1000, c.resistance_level + 10)
                    ELSE c.resistance_level
             sens == IF mutate THEN Max(100, c.drug_sensitivity - 10)
                     ELSE c.drug_sensitivity
             c1 == [c EXCEPT !.accumulated_drug = acc, !.resistance_level = res,
                             !.drug_sensitivity = sens]
         IN  IF acc >= lethal_threshold(c1)
             THEN [c1 EXCEPT !.phase = "apoptotic", !.is_alive = FALSE,
                             !.time_of_death = "apoptosis"]
             ELSE c1

\* TumorCell.absorb_drug(drug_concentration, dt); mutate is the mutation draw
absorb_drug(c, conc, dtv, mutate) ==
    IF ~c.is_alive THEN c
    ELSE LET absorbed == conc * (1000 - c.resistance_level) * c.drug_sensitivity * dtv
             acc == c.accumulated_drug + absorbed
             res == IF mutate THEN Min(1000, c.resistance_level + 10)
                    ELSE c.resistance_level
             sens == IF mutate THEN Max(100, c.drug_sensitivity - 10)
                     ELSE c.drug_sensitivity
             c1 == [c EXCEPT !.accumulated_drug = acc, !.resistance_level = res,
                             !.drug_sensitivity = sens]
         IN  IF acc >= lethal_threshold(c1)
             THEN [c1 EXCEPT !.phase = "apoptotic", !.is_alive = FALSE,
                             !.time_of_death = "apoptosis"]
             ELSE c1

----------------------------------------------------------------------------
(* ImmuneCell *)

ImmuneCellTypes == {"t_cell", "macrophage", "nk_cell", "dendritic"}

cytotoxicity(t) ==
    CASE t = "t_cell" -> 8 [] t = "macrophage" -> 4
      [] t = "nk_cell" -> 9 [] t = "dendritic" -> 2

lifespan(t) ==
    CASE t = "t_cell" -> 14400 [] t = "macrophage" -> 28800
      [] t = "nk_cell" -> 7200 [] t = "dendritic" -> 21600

\* ImmuneCell.__init__
NewImmuneCell(pos, t, act) ==
    [ position |-> pos, cell_type |-> t, activation_level |-> act,
      age |-> 0, target_cell |-> None, is_active |-> TRUE ]

\* damage = cytotoxicity * activation_level * dt * 10.0, in 1e-2
AttackDamage(im, dtv) == cytotoxicity(im.cell_type) * im.activation_level * dtv

\* The kill draws of _attack_tumor_cell: damage > 0.5 and random() < damage
KillDraws(im, dtv) ==
    IF AttackDamage(im, dtv) > 50 THEN Draws(AttackDamage(im, dtv), 100) ELSE {FALSE}

\* _attack_tumor_cell without max(0.0, ...) on the target's resistance
attack_tumor_cell_unclamped(im, target, dtv, kill) ==
    LET damage == AttackDamage(im, dtv)
        t1 == [target EXCEPT
                 !.resistance_level = target.resistance_level - damage,
                 !.drug_sensitivity = Min(2000, target.drug_sensitivity + damage \div 2)]
    IN  IF kill
        THEN [t1 EXCEPT !.phase = "apoptotic", !.is_alive = FALSE,
                        !.time_of_death = "immune_attack"]
        ELSE t1

\* _attack_tumor_cell killing without the assignment of the phase
attack_tumor_cell_flag_only(im, target, dtv, kill) ==
    LET damage == AttackDamage(im, dtv)
        t1 == [target EXCEPT
                 !.resistance_level = Max(0, target.resistance_level - damage),
                 !.drug_sensitivity = Min(2000, target.drug_sensitivity + damage \div 2)]
    IN  IF kill
        THEN [t1 EXCEPT !.is_alive = FALSE, !.time_of_death = "immune_attack"]
        ELSE t1

\* ImmuneCell._attack_tumor_cell(target, dt): the target after the attack
attack_tumor_cell(im, target, dtv, kill) ==
    LET damage == AttackDamage(im, dtv)
        t1 == [target EXCEPT
                 !.resistance_level = Max(0, target.resistance_level - damage),
                 !.drug_sensitivity = Min(2000, target.drug_sensitivity + damage \div 2)]
    IN  IF kill
        THEN [t1 EXCEPT !.phase = "apoptotic", !.is_alive = FALSE,
                        !.time_of_death = "immune_attack"]
        ELSE t1

\* ImmuneCell._find_nearest_tumor_cell: np.argmin takes the first minimum
find_nearest_tumor_cell(im, cs) ==
    LET living == {c \in DOMAIN cs : cs[c].is_alive} IN
    IF living = {} THEN None
    ELSE CHOOSE c \in living :
           \A e \in living :
              \/ Dist2(cs[c].position, im.position) < Dist2(cs[e].position, im.position)
              \/ /\ Dist2(cs[c].position, im.position) = Dist2(cs[e].position, im.position)
                 /\ c <= e

\* ImmuneCell.update keeping its target after the target has died
immune_target_stale(im, cs) ==
    IF im.target_cell = None
    THEN find_nearest_tumor_cell(im, cs)
    ELSE im.target_cell

\* The target ImmuneCell.update attacks: kept while alive, else the nearest living cell
immune_target(im, cs) ==
    IF im.target_cell = None \/ ~cs[im.target_cell].is_alive
    THEN find_nearest_tumor_cell(im, cs)
    ELSE im.target_cell

\* "distance < 20.0" of ImmuneCell.update
AttackRange == 20

\* ImmuneCell.update reaches _attack_tumor_cell: active, not past its lifespan,
\* and its target closer than the attack range
immune_attacks(im, cs, dtv) ==
    /\ im.is_active
    /\ im.age + dtv <= lifespan(im.cell_type)
    /\ immune_target(im, cs) # None
    /\ Dist2(im.position, cs[immune_target(im, cs)].position) < AttackRange * AttackRange

\* ImmuneCell.update without the check of the lifespan: the cell never dies of
\* old age
immune_update_ageless(im, cs, dtv, kill) ==
    LET aged == [im EXCEPT !.age = @ + dtv]
        tgt == immune_target(im, cs)
    IN  IF ~im.is_active THEN [immune |-> im, cells |-> cs]
        ELSE [immune |-> [aged EXCEPT !.target_cell = tgt],
              cells |-> IF immune_attacks(im, cs, dtv)
                        THEN [cs EXCEPT ![tgt] = attack_tumor_cell(im, @, dtv, kill)]
                        ELSE cs]

\* ImmuneCell.update(dt, tumor_cells): the immune cell and the tumor cells after
\* the call; kill is the draw of _attack_tumor_cell
immune_update(im, cs, dtv, kill) ==
    LET aged == [im EXCEPT !.age = @ + dtv]
        tgt == immune_target(im, cs)
    IN  IF ~im.is_active THEN [immune |-> im, cells |-> cs]
        ELSE IF aged.age > lifespan(im.cell_type)
        THEN [immune |-> [aged EXCEPT !.is_active = FALSE], cells |-> cs]
        ELSE [immune |-> [aged EXCEPT !.target_cell = tgt],
              cells |-> IF immune_attacks(im, cs, dtv)
                        THEN [cs EXCEPT ![tgt] = attack_tumor_cell(im, @, dtv, kill)]
                        ELSE cs]

----------------------------------------------------------------------------
(* Geometry: tumors of create_simple_tumor_environment in a domain of 160 um *)

DomainSize == 160
Center == <<DomainSize \div 2, DomainSize \div 2>>

\* A point at an offset from the tumor center
At(dx, dy) == <<Center[1] + dx, Center[2] + dy>>

TumorRadius == geometry.tumor_radius
Vessels == geometry.vessels
VesselIds == 1..Len(Vessels)

\* tumor_radius 50: vessel_density 0.01 gives 3 vessels, at 90-110% of the radius
Tumor50 == [tumor_radius |-> 50, vessels |-> << At(52, 0), At(0, -48), At(-45, 25) >>]

\* tumor_radius 50: cell_density 0.001 gives 7 cells in the annulus between the
\* necrotic core (25% of the radius) and the radius. A cell is hypoxic in the
\* inner 30% of the band (below 23.75 um), viable elsewhere; its type is drawn
\* with position-dependent weights.
InitialCells ==
    << NewTumorCell(At(-50, 0), "viable", "invasive"),
       NewTumorCell(At(-40, 0), "viable", "differentiated"),
       NewTumorCell(At(-35, 15), "viable", "resistant"),
       NewTumorCell(At(-35, -15), "viable", "differentiated"),
       NewTumorCell(At(-45, 20), "viable", "invasive"),
       NewTumorCell(At(-30, 0), "viable", "resistant"),
       NewTumorCell(At(-23, 0), "hypoxic", "stem_cell") >>

\* Immune cells start near a vessel; type and activation are drawn at random.
ImmuneStart == At(35, 5)
ActivationLevels == {4, 8}

\* Timesteps of the microenvironment (0.1 min and 10 min)
DtSet == {1, 100}

\* Oxygen (mmHg) and drug concentrations a cell can read from the fields
OxygenSet == {0, 38}
ConcSet == {0, 2}

\* delivery_amount = min(drug_payload, 3.0) for the payloads a nanobot can hold
DeliveryAmounts == {2, 3}

\* The amounts accumulate_drug is called with as a method of its own: a
\* delivery, or no drug at all
DoseAmounts == {0} \cup DeliveryAmounts

----------------------------------------------------------------------------
(* TumorGeometry queries *)

\* distance_from_center <= tumor_radius
InsideTumor(p) == Dist2(p, Center) <= TumorRadius * TumorRadius

\* find_nearest_vessel returning the first vessel of the list
find_nearest_vessel_first(p) == IF VesselIds = {} THEN None ELSE 1

\* TumorGeometry.find_nearest_vessel: np.argmin takes the first minimum
find_nearest_vessel(p) ==
    IF VesselIds = {} THEN None
    ELSE CHOOSE v \in VesselIds :
           \A w \in VesselIds :
              \/ Dist2(Vessels[v], p) < Dist2(Vessels[w], p)
              \/ Dist2(Vessels[v], p) = Dist2(Vessels[w], p) /\ v <= w

\* The first cell of `among` (in list order) nearest to p, if within max_distance
NearestWithin(among, cs, p, max_distance) ==
    IF among = {} THEN None
    ELSE LET c == CHOOSE a \in among :
                    \A e \in among :
                       \/ Dist2(cs[a].position, p) < Dist2(cs[e].position, p)
                       \/ Dist2(cs[a].position, p) = Dist2(cs[e].position, p) /\ a <= e
         IN  IF Dist2(cs[c].position, p) <= max_distance * max_distance THEN c ELSE None

\* NanobotAgent._find_nearest_living_cell(max_distance)
find_nearest_living_cell(bot, cs, max_distance) ==
    NearestWithin({c \in DOMAIN cs : cs[c].is_alive /\ InsideTumor(cs[c].position)},
                  cs, bot.position, max_distance)

\* NanobotAgent._find_nearest_hypoxic_cell(max_distance)
find_nearest_hypoxic_cell(bot, cs, max_distance) ==
    NearestWithin({c \in DOMAIN cs : /\ cs[c].is_alive
                                     /\ cs[c].phase = "hypoxic"
                                     /\ InsideTumor(cs[c].position)},
                  cs, bot.position, max_distance)

----------------------------------------------------------------------------
(* NanobotAgent *)

NanobotStates == {"searching", "targeting", "delivering", "returning", "reloading"}

InitialPayload == 20
max_payload == 20
speed == 30

\* NanobotAgent.__init__
NewNanobot(pos, llm) ==
    [ position |-> pos, state |-> "searching", drug_payload |-> InitialPayload,
      target_cell |-> None, target_vessel |-> None,
      deliveries_made |-> 0, total_drug_delivered |-> 0,
      is_llm_controlled |-> llm ]

\* np.clip(x, range[0], range[1])
Clip(x, lo, hi) == IF x < lo THEN lo ELSE IF x > hi THEN hi ELSE x

\* "drug_payload < 10.0" of _enforce_tumor_boundary
LowPayload == 10
\* "vessel_distance > 100.0" of _enforce_tumor_boundary
VesselRedirectDistance == 100
\* "tumor_radius - 5.0" of _enforce_tumor_boundary
EdgeMargin == 5

\* NanobotAgent._enforce_tumor_boundary
enforce_tumor_boundary(bot, cs) ==
    LET can_be_outside == \/ bot.state = "returning"
                          \/ bot.state = "reloading"
                          \/ bot.drug_payload < LowPayload
        is_actively_targeting == bot.state = "targeting" \/ bot.state = "delivering"
    IN
    IF InsideTumor(bot.position) THEN bot
    ELSE IF /\ is_actively_targeting
            /\ bot.target_cell # None
            /\ InsideTumor(cs[bot.target_cell].position)
    THEN bot
    ELSE IF ~can_be_outside /\ ~is_actively_targeting
    THEN LET edge == VAdd(Center, Scale(VSub(Center, bot.position),
                                        TumorRadius - EdgeMargin))
             b1 == [bot EXCEPT !.position = edge]
         IN  IF bot.target_cell # None
             THEN [b1 EXCEPT !.target_cell = None, !.state = "searching"]
             ELSE b1
    ELSE IF bot.state = "returning"
    THEN LET v == find_nearest_vessel(bot.position) IN
         IF v # None /\ Dist2(bot.position, Vessels[v]) >
                          VesselRedirectDistance * VesselRedirectDistance
         THEN [bot EXCEPT !.position =
                  VAdd(bot.position, Scale(VSub(Vessels[v], bot.position), speed \div 2))]
         ELSE bot
    ELSE bot

\* NanobotAgent._clamp_position
clamp_position(bot, cs) ==
    enforce_tumor_boundary(
        [bot EXCEPT !.position = <<Clip(bot.position[1], 0, DomainSize),
                                   Clip(bot.position[2], 0, DomainSize)>>], cs)

\* "distance < 30.0" of _move_toward_target
CaptureRadius == 30

\* _move_toward_target that captures only on contact (distance < 1) instead of
\* within the capture radius
move_toward_target_contact(bot, cs) ==
    IF bot.target_cell = None \/ ~cs[bot.target_cell].is_alive
    THEN [bot EXCEPT !.target_cell = None, !.state = "searching"]
    ELSE IF Dist2(cs[bot.target_cell].position, bot.position) < 1
    THEN [bot EXCEPT !.state = "delivering"]
    ELSE clamp_position(
           [bot EXCEPT !.position =
               VAdd(bot.position,
                    Scale(VSub(cs[bot.target_cell].position, bot.position), speed))], cs)

\* NanobotAgent._move_toward_target
move_toward_target(bot, cs) ==
    IF bot.target_cell = None \/ ~cs[bot.target_cell].is_alive
    THEN [bot EXCEPT !.target_cell = None, !.state = "searching"]
    ELSE IF Dist2(cs[bot.target_cell].position, bot.position) < CaptureRadius * CaptureRadius
    THEN [bot EXCEPT !.state = "delivering"]
    ELSE clamp_position(
           [bot EXCEPT !.position =
               VAdd(bot.position,
                    Scale(VSub(cs[bot.target_cell].position, bot.position), speed))], cs)

\* "min(self.drug_payload, 3.0)" of _deliver_drug
DeliveryPerTick == 3
\* "drug_payload < 2.0" of _deliver_drug
ReloadThreshold == 2

\* A delivery that always hands over the full tick amount
delivery_amount_fixed(bot) == DeliveryPerTick

\* min(self.drug_payload, 3.0)
delivery_amount(bot) == Min(bot.drug_payload, DeliveryPerTick)

\* _deliver_drug with a lost target sending the nanobot to RELOADING
deliver_drug_to_reload(bot, cs) ==
    IF bot.target_cell = None \/ ~cs[bot.target_cell].is_alive
    THEN [bot EXCEPT !.target_cell = None, !.state = "reloading"]
    ELSE LET amount == delivery_amount(bot)
             b1 == IF bot.drug_payload > 0
                   THEN [bot EXCEPT !.drug_payload = @ - amount,
                                    !.total_drug_delivered = @ + amount,
                                    !.deliveries_made = @ + 1]
                   ELSE bot
         IN  IF b1.drug_payload < ReloadThreshold
             THEN [b1 EXCEPT !.target_cell = None,
                             !.target_vessel = find_nearest_vessel(bot.position),
                             !.state = "returning"]
             ELSE b1

\* _deliver_drug without "self.total_drug_delivered += delivery_amount"
deliver_drug_uncounted(bot, cs) ==
    IF bot.target_cell = None \/ ~cs[bot.target_cell].is_alive
    THEN [bot EXCEPT !.target_cell = None, !.state = "searching"]
    ELSE LET amount == delivery_amount(bot)
             b1 == IF bot.drug_payload > 0
                   THEN [bot EXCEPT !.drug_payload = @ - amount,
                                    !.deliveries_made = @ + 1]
                   ELSE bot
         IN  IF b1.drug_payload < ReloadThreshold
             THEN [b1 EXCEPT !.target_cell = None,
                             !.target_vessel = find_nearest_vessel(bot.position),
                             !.state = "returning"]
             ELSE b1

\* NanobotAgent._deliver_drug: the nanobot after the step
deliver_drug(bot, cs) ==
    IF bot.target_cell = None \/ ~cs[bot.target_cell].is_alive
    THEN [bot EXCEPT !.target_cell = None, !.state = "searching"]
    ELSE LET amount == delivery_amount(bot)
             b1 == IF bot.drug_payload > 0
                   THEN [bot EXCEPT !.drug_payload = @ - amount,
                                    !.total_drug_delivered = @ + amount,
                                    !.deliveries_made = @ + 1]
                   ELSE bot
         IN  IF b1.drug_payload < ReloadThreshold
             THEN [b1 EXCEPT !.target_cell = None,
                             !.target_vessel = find_nearest_vessel(bot.position),
                             !.state = "returning"]
             ELSE b1

\* _deliver_drug releasing into the drug field only
deliver_drug_cells_field_only(bot, cs) == cs

\* NanobotAgent._deliver_drug: the cells after the step (accumulate_drug on the target)
deliver_drug_cells(bot, cs) ==
    IF bot.target_cell = None \/ ~cs[bot.target_cell].is_alive \/ bot.drug_payload <= 0
    THEN cs
    ELSE [cs EXCEPT ![bot.target_cell] = accumulate_drug(@, delivery_amount(bot))]

\* "distance < 10.0" of _return_to_vessel
VesselCaptureRadius == 10

\* NanobotAgent._return_to_vessel
return_to_vessel(bot, cs) ==
    LET tv == IF bot.target_vessel = None THEN find_nearest_vessel(bot.position)
              ELSE bot.target_vessel
        b1 == [bot EXCEPT !.target_vessel = tv]
    IN  IF tv = None THEN [b1 EXCEPT !.state = "searching"]
        ELSE IF Dist2(Vessels[tv], bot.position) < VesselCaptureRadius * VesselCaptureRadius
        THEN [b1 EXCEPT !.state = "reloading"]
        ELSE clamp_position(
               [b1 EXCEPT !.position =
                   VAdd(bot.position, Scale(VSub(Vessels[tv], bot.position), speed))], cs)

\* "reload_rate = 5.0" of _reload_drug
reload_rate == 5

\* _reload_drug leaving RELOADING only with a full payload
reload_drug_until_full(bot) ==
    LET b1 == [bot EXCEPT !.drug_payload = Min(bot.drug_payload + reload_rate, max_payload)]
    IN  IF b1.drug_payload >= max_payload
        THEN [b1 EXCEPT !.target_vessel = None, !.state = "searching"]
        ELSE b1

\* _reload_drug leaving for SEARCHING without "self.target_vessel = None"
reload_drug_keeps_vessel(bot) ==
    LET b1 == [bot EXCEPT !.drug_payload = Min(bot.drug_payload + reload_rate, max_payload)]
    IN  IF 10 * b1.drug_payload >= 9 * max_payload
        THEN [b1 EXCEPT !.state = "searching"]
        ELSE b1

\* NanobotAgent._reload_drug ("drug_payload >= max_payload * 0.9")
reload_drug(bot) ==
    LET b1 == [bot EXCEPT !.drug_payload = Min(bot.drug_payload + reload_rate, max_payload)]
    IN  IF 10 * b1.drug_payload >= 9 * max_payload
        THEN [b1 EXCEPT !.target_vessel = None, !.state = "searching"]
        ELSE b1

----------------------------------------------------------------------------
(* QueenNanobot *)

\* "nanobot.drug_payload > 20.0" of _guide_with_heuristic
QueenPayloadThreshold == 20

\* QueenNanobot._guide_with_heuristic: nanobot id -> direction * speed, for the
\* nanobots that get an entry. get_cells_in_phase does not look at is_alive.
guide_with_heuristic(nbs, cs) ==
    LET hypoxic == {c \in DOMAIN cs : cs[c].phase = "hypoxic"}
        nearest(n) == NearestWithin(hypoxic, cs, nbs[n].position, 2 * DomainSize)
        guided == {n \in DOMAIN nbs :
                     /\ hypoxic # {}
                     /\ nbs[n].state = "searching"
                     /\ nbs[n].drug_payload > QueenPayloadThreshold
                     /\ cs[nearest(n)].position # nbs[n].position}
    IN  [n \in guided |-> Scale(VSub(cs[nearest(n)].position, nbs[n].position), speed)]

NoGuidance == [n \in {} |-> <<0, 0>>]

\* floor(sqrt(n)): np.linalg.norm on the 1 um lattice
ISqrt(n) == CHOOSE k \in 0..(2 * DomainSize) : k * k <= n /\ n < (k + 1) * (k + 1)

\* The regions _guide_with_llm collects, in the order
\* _guide_with_enhanced_heuristic goes through them: stem cells (priority
\* 3/(d+1)), active immune cells with activation above 0.7 (2/(d+1)), living
\* cells with resistance above 0.5 (1.5/(d+1)). k is twice the numerator.
QueenRegions(cs, ims) ==
    {[pos |-> cs[c].position, k |-> 6, ord |-> c] :
        c \in {e \in DOMAIN cs : cs[e].is_alive /\ cs[e].cell_type = "stem_cell"}}
    \cup {[pos |-> ims[i].position, k |-> 4, ord |-> 100 + i] :
        i \in {j \in DOMAIN ims : ims[j].is_active /\ ims[j].activation_level > 7}}
    \cup {[pos |-> cs[c].position, k |-> 3, ord |-> 200 + c] :
        c \in {e \in DOMAIN cs : cs[e].is_alive /\ cs[e].resistance_level > 500}}

\* QueenNanobot._guide_with_enhanced_heuristic: the first region of the highest
\* priority at a non-zero distance
guide_with_enhanced_heuristic(nbs, cs, ims) ==
    LET usable(n) == {a \in QueenRegions(cs, ims) : a.pos # nbs[n].position}
        d(n, a) == ISqrt(Dist2(a.pos, nbs[n].position))
        better(n, a, b) == a.k * (d(n, b) + 1) > b.k * (d(n, a) + 1)
        best(n) == CHOOSE a \in usable(n) :
                      \A b \in usable(n) \ {a} :
                         better(n, a, b) \/ (~better(n, b, a) /\ a.ord < b.ord)
        guided == {n \in DOMAIN nbs :
                     /\ nbs[n].state = "searching"
                     /\ nbs[n].drug_payload > QueenPayloadThreshold
                     /\ usable(n) # {}}
    IN  [n \in guided |-> Scale(VSub(best(n).pos, nbs[n].position), speed)]

----------------------------------------------------------------------------
(* NanobotAgent._search_for_target *)

\* The tokens of the decision policy
PolicyTokens == {"target", "follow_trail", "explore", "return"}

\* What the decision policy call can come to: the content of the reply (one of
\* the four tokens, a token in other case and padded with blanks, another word),
\* or a failure of the external call.
PolicyReplies == {"target", "follow_trail", "explore", "return", " Target ",
                  "unrecognized", "api_failure"}

\* content.strip().lower() for the replies above
StripLower(reply) == IF reply = " Target " THEN "target" ELSE reply

\* _ask_llm_for_decision returning the reply as it came, without the membership
\* test and without the handler of the external call
ask_llm_for_decision_unchecked(reply) == StripLower(reply)

\* NanobotAgent._ask_llm_for_decision: the action it returns. A failure of the
\* external call is caught inside and answered with 'explore'.
ask_llm_for_decision(reply) ==
    IF reply = "api_failure" THEN "explore"
    ELSE IF StripLower(reply) \in PolicyTokens THEN StripLower(reply)
    ELSE "explore"

\* Unit directions * speed that stay on the lattice: final_direction * self.speed
Directions == { <<30, 0>>, <<0, -30>> }

\* The draws one step consumes. Only _search_for_target draws anything: the
\* policy is called only for a nanobot under its control, and the trail gradient
\* is read only on "follow_trail".
\* w.tel: what the ledger reports of the step come to (at most two per step);
\* without a ledger nothing is drawn.
NoReports == <<"none", "none">>

NoDraws == [reply |-> "none", trail |-> FALSE, grad |-> FALSE, d |-> <<0, 0>>,
            tel |-> NoReports]

PlainDraws == [reply : {"none"}, trail : {FALSE}, grad : BOOLEAN, d : Directions,
               tel : {NoReports}]

PolicyDraws ==
    {w \in [reply : PolicyReplies, trail : BOOLEAN, grad : BOOLEAN, d : Directions,
            tel : {NoReports}] :
        w.trail => w.reply = "follow_trail"}

SearchDraws(bot, pol) ==
    IF bot.is_llm_controlled /\ pol THEN PolicyDraws ELSE PlainDraws

StepDraws(bot, pol) ==
    IF bot.state = "searching" THEN SearchDraws(bot, pol) ELSE {NoDraws}

\* "max_distance=100.0", "max_distance=120.0", "drug_payload > 2.0"
SearchRadius == 100
PolicySearchRadius == 120
MinTargetPayload == 2

\* The outcome of a handler: the nanobot after it, whether it raised, how many
\* entries it appended to model.errors, and whether it called the decision policy
Outcome(bot, raised, logged, asked) ==
    [bot |-> bot, raised |-> raised, logged |-> logged, asked |-> asked]

\* The default movement without the final _clamp_position
chemotaxis_move_unclamped(bot, cs, w) ==
    LET move == IF w.grad \/ InsideTumor(bot.position) THEN w.d
                ELSE Scale(VSub(Center, bot.position), speed)
    IN  [bot EXCEPT !.position = VAdd(bot.position, move)]

\* The default branch of _search_for_target: chemotaxis with inertia and noise when
\* there is a gradient (final_direction can be any unit vector), else a random
\* walk inside the tumor or a move toward the tumor center outside it; then clamp.
chemotaxis_move(bot, cs, w) ==
    LET move == IF w.grad \/ InsideTumor(bot.position) THEN w.d
                ELSE Scale(VSub(Center, bot.position), speed)
    IN  clamp_position([bot EXCEPT !.position = VAdd(bot.position, move)], cs)

\* _search_for_target looking at the guidance before the nearby cells
search_for_target_guided_first(bot, n, cs, guidance, pol, w) ==
    LET nearby == find_nearest_living_cell(bot, cs, SearchRadius)
    IN  IF n \in DOMAIN guidance THEN Outcome(bot, TRUE, 0, FALSE)
        ELSE IF nearby # None /\ bot.drug_payload > MinTargetPayload
        THEN Outcome([bot EXCEPT !.target_cell = nearby, !.state = "targeting"],
                     FALSE, 0, FALSE)
        ELSE Outcome(chemotaxis_move(bot, cs, w), FALSE, 0, bot.is_llm_controlled /\ pol)

\* NanobotAgent._search_for_target(guidance). The draws w of the step: w.reply,
\* what the policy call comes to; w.trail, the trail gradient is non-zero;
\* w.grad, the chemotaxis gradient is non-zero; w.d, the direction the noise
\* leaves.
search_for_target(bot, n, cs, guidance, pol, w) ==
    LET nearby == find_nearest_living_cell(bot, cs, SearchRadius)
        action == ask_llm_for_decision(w.reply)
        hyp == find_nearest_hypoxic_cell(bot, cs, PolicySearchRadius)
    IN
    IF nearby # None /\ bot.drug_payload > MinTargetPayload
    THEN Outcome([bot EXCEPT !.target_cell = nearby, !.state = "targeting"], FALSE, 0,
                 FALSE)
    ELSE IF n \in DOMAIN guidance
    \* self.position (3 components) += guided_direction (2 components) * speed:
    \* numpy raises ValueError, outside any try
    THEN Outcome(bot, TRUE, 0, FALSE)
    ELSE IF bot.is_llm_controlled /\ pol /\ action = "target" /\ hyp # None
    THEN Outcome([bot EXCEPT !.target_cell = hyp, !.state = "targeting"], FALSE, 0, TRUE)
    ELSE IF bot.is_llm_controlled /\ pol /\ action = "follow_trail" /\ w.trail
    \* self.position += direction * self.speed raises the same ValueError inside
    \* the try: logged, then the default movement
    THEN Outcome(chemotaxis_move(bot, cs, w), FALSE, 1, TRUE)
    ELSE Outcome(chemotaxis_move(bot, cs, w), FALSE, 0, bot.is_llm_controlled /\ pol)

\* NanobotAgent.step(guidance): the nanobot after the step
step(bot, n, cs, guidance, pol, w) ==
    CASE bot.state = "reloading"  -> Outcome(reload_drug(bot), FALSE, 0, FALSE)
      [] bot.state = "delivering" -> Outcome(deliver_drug(bot, cs), FALSE, 0, FALSE)
      [] bot.state = "returning"  -> Outcome(return_to_vessel(bot, cs), FALSE, 0, FALSE)
      [] bot.state = "targeting"  -> Outcome(move_toward_target(bot, cs), FALSE, 0, FALSE)
      [] OTHER -> search_for_target(bot, n, cs, guidance, pol, w)

\* NanobotAgent.step(guidance): the cells after the step
step_cells(bot, cs) ==
    IF bot.state = "delivering" THEN deliver_drug_cells(bot, cs) ELSE cs

----------------------------------------------------------------------------
(* NanobotAgent._report_intel_to_blockchain and the sources a step deposits *)

\* What a report can come to: mined ("ok"); an exception before the nonce is
\* taken (contract not initialized, no connection, empty account: "rejected");
\* an exception after it (sending fails, no receipt in time, status not 1: "lost")
ReportResults == {"ok", "rejected", "lost"}

\* The draws of the reports of one step
TelemetryDraws(enabled) == IF enabled THEN [1..2 -> ReportResults] ELSE {NoReports}

WithTelemetry(ws, enabled) ==
    {[w EXCEPT !.tel = t] : w \in ws, t \in TelemetryDraws(enabled)}

\* _report_intel_to_blockchain without its try/except: an exception of the
\* ledger client leaves the method
report_intel_to_blockchain_unhandled(m, result) ==
    IF ~m.blockchain_enabled THEN [model |-> m, raised |-> FALSE]
    ELSE IF result = "ok"
    THEN [model |-> [m EXCEPT !.current_nonce = @ + 1, !.blockchain_logs = @ + 1],
          raised |-> FALSE]
    ELSE IF result = "lost"
    THEN [model |-> [m EXCEPT !.current_nonce = @ + 1], raised |-> TRUE]
    ELSE [model |-> m, raised |-> TRUE]

\* NanobotAgent._report_intel_to_blockchain: the model after the call and whether
\* an exception left it. Every failure is caught and printed ("Failed to report
\* intel", counted in failed_reports).
report_intel_to_blockchain(m, result) ==
    IF ~m.blockchain_enabled THEN [model |-> m, raised |-> FALSE]
    ELSE IF result = "ok"
    THEN [model |-> [m EXCEPT !.current_nonce = @ + 1, !.blockchain_logs = @ + 1],
          raised |-> FALSE]
    ELSE IF result = "lost"
    THEN [model |-> [m EXCEPT !.current_nonce = @ + 1, !.failed_reports = @ + 1],
          raised |-> FALSE]
    ELSE [model |-> [m EXCEPT !.failed_reports = @ + 1], raised |-> FALSE]

\* The reports i..k of a step in order, stopping at one that raises; at is the
\* report that raised (0 if none)
RECURSIVE report_all(_, _, _, _)
report_all(m, k, tel, i) ==
    IF i > k THEN [model |-> m, raised |-> FALSE, at |-> 0]
    ELSE LET r == report_intel_to_blockchain(m, tel[i])
         IN  IF r.raised THEN [model |-> r.model, raised |-> TRUE, at |-> i]
             ELSE report_all(r.model, k, tel, i + 1)

\* _deliver_drug releases drug: it has a living target and payload left
delivers(bot, cs) ==
    bot.state = "delivering" /\ bot.target_cell # None
        /\ cs[bot.target_cell].is_alive /\ bot.drug_payload > 0

\* The reports a step makes: TARGET_ACQUIRED when _search_for_target locks a
\* cell, HYPOXIC_CLUSTER when _find_nearest_hypoxic_cell finds one for the
\* policy, DRUG_DELIVERY for a delivery and SUCCESSFUL_KILL if it killed
step_reports(bot, cs, out) ==
    IF out.raised THEN 0
    ELSE IF bot.state = "searching"
    THEN (IF out.bot.state = "targeting" THEN 1 ELSE 0)
    ELSE IF delivers(bot, cs)
    THEN (IF accumulate_drug_killed(cs[bot.target_cell], delivery_amount(bot))
          THEN 2 ELSE 1)
    ELSE 0

\* "trail.add_source(voxel, 3.0)", "chemokine.add_source(voxel, 4.0)",
\* "alarm.add_source(voxel, 5.0)"
TrailDeposit == 3
ChemokineDeposit == 4
AlarmDeposit == 5

\* The amounts added to the source and sink buffers of the substrates since they
\* were last cleared: drug, trail, chemokine_signal and alarm by the nanobots,
\* oxygen by the vessels and oxygen_sink (in 1e-2 mmHg) and toxicity by the cells
NoSources == [drug |-> 0, trail |-> 0, chemokine_signal |-> 0, alarm |-> 0,
              oxygen |-> 0, oxygen_sink |-> 0, toxicity |-> 0]

\* The sources after a completed step: drug, trail and chemokine_signal of a
\* delivery, alarm after a logged failure of the policy block
step_sources(src, bot, cs, logged) ==
    LET s1 == IF delivers(bot, cs)
              THEN [src EXCEPT !.drug = @ + delivery_amount(bot),
                               !.trail = @ + TrailDeposit,
                               !.chemokine_signal = @ + ChemokineDeposit]
              ELSE src
    IN  IF logged > 0 THEN [s1 EXCEPT !.alarm = @ + AlarmDeposit * logged] ELSE s1

\* The result of a nanobot step on the run: nanobot, cells and model after it,
\* whether an exception left step(), the entries appended to model.errors and
\* whether the decision policy was called
StepResult(bot, cs, m, raised, logged, asked) ==
    [bot |-> bot, cells |-> cs, model |-> m, raised |-> raised, logged |-> logged,
     asked |-> asked]

\* NanobotAgent.step(guidance) with its reports and deposits. If a report
\* raised, the step would end at that call: inside the policy block its handler
\* logs it and the default movement follows; after a lock the target is already
\* set; in _deliver_drug the payload is already released, the cell dosed only
\* if it was the second report.
run_step(bot, n, cs, guidance, pol, w, m) ==
    LET out == step(bot, n, cs, guidance, pol, w)
        tel == report_all(m, step_reports(bot, cs, out), w.tel, 1)
        released == [bot EXCEPT !.drug_payload = @ - delivery_amount(bot),
                                !.total_drug_delivered = @ + delivery_amount(bot),
                                !.deliveries_made = @ + 1]
    IN  IF out.raised THEN StepResult(out.bot, cs, m, TRUE, out.logged, out.asked)
        ELSE IF ~tel.raised
        THEN StepResult(out.bot, step_cells(bot, cs),
                        [tel.model EXCEPT
                           !.sources = step_sources(@, bot, cs, out.logged)],
                        FALSE, out.logged, out.asked)
        ELSE IF bot.state = "searching" /\ out.asked
        THEN StepResult(chemotaxis_move(bot, cs, w), cs,
                        [tel.model EXCEPT !.sources.alarm = @ + AlarmDeposit],
                        FALSE, 1, TRUE)
        ELSE IF bot.state = "searching"
        THEN StepResult(out.bot, cs, tel.model, TRUE, 0, FALSE)
        ELSE StepResult(released,
                        IF tel.at = 1 THEN cs ELSE step_cells(bot, cs),
                        [tel.model EXCEPT !.sources.drug = @ + delivery_amount(bot)],
                        TRUE, 0, FALSE)

----------------------------------------------------------------------------
(* TumorNanobotModel._apply_cell_mechanics *)

\* "repulsion_radius = 25.0"; repulsion_force = 2.0 um, half of it to each cell
repulsion_radius == 25

\* |x| / distance * (repulsion_radius - distance) / repulsion_radius, rounded to
\* the lattice: below 1, so 0 or 1, and 1 iff it is at least one half.
RepelComp(x, d2) ==
    LET a == Abs(x)
        w == repulsion_radius + 2 * a
    IN  IF 4 * repulsion_radius * repulsion_radius * a * a >= d2 * w * w
        THEN Sgn(x) ELSE 0

\* One pair of the double loop: cell i and cell j pushed apart
Repel(cs, i, j) ==
    LET v == VSub(cs[j].position, cs[i].position)
        d2 == Norm2(v)
        push == <<RepelComp(v[1], d2), RepelComp(v[2], d2)>>
    IN  IF /\ cs[i].is_alive /\ cs[j].is_alive
           /\ d2 < repulsion_radius * repulsion_radius /\ d2 > 0
        THEN [cs EXCEPT ![i].position = VSub(@, push), ![j].position = VAdd(@, push)]
        ELSE cs

RECURSIVE MechanicsFrom(_, _, _)
MechanicsFrom(cs, i, j) ==
    IF i > Len(cs) THEN cs
    ELSE IF j > Len(cs) THEN MechanicsFrom(cs, i + 1, i + 2)
    ELSE MechanicsFrom(Repel(cs, i, j), i, j + 1)

apply_cell_mechanics(cs) == MechanicsFrom(cs, 1, 2)

----------------------------------------------------------------------------
(* TumorCell.update_growth / divide and TumorNanobotModel._update_tumor_cells *)

\* The tumor never grows beyond this many cells
MaxCells == 8

\* update_growth without its gate: it can answer true for any cell
can_grow_ungated(c, oxygen) == TRUE

\* TumorCell.update_growth(dt, oxygen) can return true: the per-type growth draw
\* is gated by oxygen sufficiency and never made for a non-viable cell.
can_grow(c, oxygen) ==
    c.is_alive /\ c.phase = "viable" /\ oxygen >= hypoxic_threshold(c.cell_type)

\* The nearby offsets at which divide() places the daughter
DaughterOffsets == { <<0, 8>>, <<6, 0>> }

\* TumorCell.divide(new_id): the daughter, of the mother's type, generation + 1
divide(c, off) ==
    [NewTumorCell(VAdd(c.position, off), "viable", c.cell_type)
        EXCEPT !.generation = c.generation + 1]

\* update_oxygen_status and absorb_drug of one cell in the loop of
\* _update_tumor_cells; mutate is the draw of absorb_drug
update_cell(c, oxygen, conc, dtv, mutate) ==
    absorb_drug(update_oxygen_status(c, oxygen, dtv), conc, dtv, mutate)

\* The growth draws of one pass of _update_tumor_cells: no cell divides, or cell
\* g does, placing its daughter at an offset.
GrowthDraws(cs, oxygen, conc, dtv) ==
    {[g |-> None, off |-> <<0, 0>>]} \cup
    [g : {c \in DOMAIN cs : /\ Len(cs) < MaxCells
                            /\ can_grow(update_cell(cs[c], oxygen, conc, dtv, FALSE),
                                        oxygen)},
     off : DaughterOffsets]

\* TumorNanobotModel._update_tumor_cells: every living cell updated, daughters
\* appended after the loop, repulsion applied only if a cell divided
update_tumor_cells(cs, oxygen, conc, dtv, grow) ==
    LET updated == [c \in DOMAIN cs |->
                      IF cs[c].is_alive
                      THEN update_cell(cs[c], oxygen, conc, dtv, FALSE)
                      ELSE cs[c]]
    IN  IF grow.g = None THEN updated
        ELSE apply_cell_mechanics(Append(updated, divide(updated[grow.g], grow.off)))

\* The cells "cell.update_growth(dt, oxygen)" is called with in one pass of
\* _update_tumor_cells, each with the phase it has at the time of the call: every
\* cell that was alive when its iteration began, after its update_oxygen_status
\* and absorb_drug
growth_checks(cs, oxygen, conc, dtv) ==
    [c \in {k \in DOMAIN cs : cs[k].is_alive} |->
        update_cell(cs[c], oxygen, conc, dtv, FALSE).phase]

\* "self.oxygen_uptake_rate", mmHg/min
oxygen_uptake_rate(t) ==
    CASE t = "stem_cell" -> 8 [] t = "differentiated" -> 10
      [] t = "resistant" -> 12 [] t = "invasive" -> 15

\* TumorCell.get_oxygen_consumption() * dt in 1e-2 mmHg: the full rate of a
\* VIABLE cell, 0.3 of it for a HYPOXIC one, nothing otherwise
oxygen_consumption(c, dtv) ==
    IF ~c.is_alive THEN 0
    ELSE IF c.phase = "viable" THEN oxygen_uptake_rate(c.cell_type) * dtv * 10
    ELSE IF c.phase = "hypoxic" THEN oxygen_uptake_rate(c.cell_type) * dtv * 3
    ELSE 0

\* toxicity_amount of a cell: 2.0 if HYPOXIC, 5.0 if NECROTIC, 3.0 more where the
\* drug concentration is above 50
toxicity_amount(c, conc) ==
    (IF c.phase = "hypoxic" THEN 2 ELSE 0) + (IF c.phase = "necrotic" THEN 5 ELSE 0)
      + (IF conc > 50 THEN 3 ELSE 0)

\* The sinks and sources the loop of _update_tumor_cells adds from cell i on:
\* for every cell alive when its iteration begins, after its update
RECURSIVE cell_deposits(_, _, _, _, _, _)
cell_deposits(src, cs, oxygen, conc, dtv, i) ==
    IF i > Len(cs) THEN src
    ELSE IF ~cs[i].is_alive THEN cell_deposits(src, cs, oxygen, conc, dtv, i + 1)
    ELSE cell_deposits(
            Only({[src EXCEPT !.oxygen_sink = @ + oxygen_consumption(c, dtv),
                              !.toxicity = @ + toxicity_amount(c, conc)] :
                    c \in {update_cell(cs[i], oxygen, conc, dtv, FALSE)}}),
            cs, oxygen, conc, dtv, i + 1)

\* "vessel.oxygen_supply * 0.5" of a generated vessel (38.0 mmHg), in 1e-2 mmHg;
\* its drug_supply is 0.0, so no drug source is added
VesselOxygenSource == 1900

\* TumorNanobotModel._apply_vessel_sources
apply_vessel_sources(src) ==
    [src EXCEPT !.oxygen = @ + VesselOxygenSource * Len(Vessels)]

\* TumorNanobotModel._update_immune_cells: every active immune cell updated in
\* order, against the cells the earlier ones left, and secrete_cytokines called
\* for it after its update. attacked: the immune cells whose update reached
\* _attack_tumor_cell; secreted: those secrete_cytokines was called for.
RECURSIVE update_immune_from(_, _, _, _, _)
update_immune_from(ims, cs, dtv, kill, i) ==
    IF i > Len(ims)
    THEN [immune |-> ims, cells |-> cs, attacked |-> {}, secreted |-> {}]
    ELSE IF ~ims[i].is_active THEN update_immune_from(ims, cs, dtv, kill, i + 1)
    ELSE LET out == immune_update(ims[i], cs, dtv, kill)
             rest == update_immune_from([ims EXCEPT ![i] = out.immune], out.cells,
                                        dtv, kill, i + 1)
         IN  [rest EXCEPT
                !.attacked = @ \cup (IF immune_attacks(ims[i], cs, dtv) THEN {i} ELSE {}),
                !.secreted = @ \cup {i}]

update_immune_cells(ims, cs, dtv, kill) == update_immune_from(ims, cs, dtv, kill, 1)

\* The kill draws of one pass of _update_immune_cells (one draw for the pass)
ImmuneDraws(ims, cs, dtv) ==
    IF \E i \in DOMAIN ims : immune_attacks(ims[i], cs, dtv) /\ TRUE \in KillDraws(ims[i], dtv)
    THEN BOOLEAN ELSE {FALSE}

----------------------------------------------------------------------------
(* TumorNanobotModel.step *)

\* "self.step_count % 10 == 0": the queen acts every 10 steps
QueenInterval == 10

\* A queen that guides every SEARCHING nanobot able to lock a target (payload above
\* the targeting minimum) toward the nearest hypoxic cell, at every step
queen_guidance_eager(queen, step_count, nbs, cs) ==
    LET hypoxic == {c \in DOMAIN cs : cs[c].phase = "hypoxic"}
        nearest(n) == NearestWithin(hypoxic, cs, nbs[n].position, 2 * DomainSize)
        guided == {n \in DOMAIN nbs :
                     /\ queen
                     /\ hypoxic # {}
                     /\ nbs[n].state = "searching"
                     /\ nbs[n].drug_payload > MinTargetPayload
                     /\ cs[nearest(n)].position # nbs[n].position}
    IN  [n \in guided |-> Scale(VSub(cs[nearest(n)].position, nbs[n].position), speed)]

\* A queen asked at every step
queen_due_always(queen, step_count) == queen

\* "if self.queen and self.step_count % 10 == 0"
queen_due(queen, step_count) == queen /\ step_count % QueenInterval = 0

\* The guidance of one model step from the heuristic queen: queen.guide() every
\* QueenInterval steps when there is a queen, else the empty dictionary
queen_guidance(queen, step_count, nbs, cs) ==
    IF queen_due(queen, step_count)
    THEN guide_with_heuristic(nbs, cs)
    ELSE NoGuidance

\* What a call of queen.guide() can come to: it returns ("ok"); the external
\* call of _guide_with_llm fails ("api_failure", only with use_llm and a usable
\* policy client); an exception leaves guide() ("guide_failure")
QueenDraws(m, pol, step_count) ==
    IF ~queen_due(m.queen, step_count) THEN {"none"}
    ELSE IF m.use_llm /\ pol THEN {"ok", "api_failure", "guide_failure"}
    ELSE {"ok", "guide_failure"}

\* The queen's part of a model step: the guidance passed to the nanobots, the
\* entries appended to model.errors, whether an exception left step(), and what
\* the call came to
QueenTurn(guidance, logged, raised, result) ==
    [guidance |-> guidance, logged |-> logged, raised |-> raised, result |-> result]

\* The queen's part of step() without the try around queen.guide()
queen_turn_unguarded(m, pol, step_count, nbs, cs, ims, q) ==
    IF ~queen_due(m.queen, step_count)
    THEN QueenTurn(NoGuidance, 0, FALSE, "none")
    ELSE IF q = "guide_failure" THEN QueenTurn(NoGuidance, 0, TRUE, q)
    ELSE IF m.use_llm /\ pol /\ q = "api_failure"
    THEN QueenTurn(queen_guidance(m.queen, step_count, nbs, cs), 1, FALSE, q)
    ELSE IF m.use_llm /\ pol
    THEN QueenTurn(guide_with_enhanced_heuristic(nbs, cs, ims), 0, FALSE, "ok")
    ELSE QueenTurn(queen_guidance(m.queen, step_count, nbs, cs), 0, FALSE, "ok")

\* The queen's part of step(): guide() is called when due; _guide_with_llm
\* catches a failure of its external call, logs it and returns the default
\* heuristic's guidance; an exception leaving guide() is caught by step(),
\* logged, and the guidance stays empty
queen_turn(m, pol, step_count, nbs, cs, ims, q) ==
    IF ~queen_due(m.queen, step_count)
    THEN QueenTurn(queen_guidance(m.queen, step_count, nbs, cs), 0, FALSE, "none")
    ELSE IF q = "guide_failure" THEN QueenTurn(NoGuidance, 1, FALSE, q)
    ELSE IF m.use_llm /\ pol /\ q = "api_failure"
    THEN QueenTurn(queen_guidance(m.queen, step_count, nbs, cs), 1, FALSE, q)
    ELSE IF m.use_llm /\ pol
    THEN QueenTurn(guide_with_enhanced_heuristic(nbs, cs, ims), 0, FALSE, "ok")
    ELSE QueenTurn(queen_guidance(m.queen, step_count, nbs, cs), 0, FALSE, "ok")

\* sum(n.total_drug_delivered for n in self.nanobots), sum(n.deliveries_made ...)
RECURSIVE SumDrug(_, _)
SumDrug(nbs, i) ==
    IF i > Len(nbs) THEN 0 ELSE nbs[i].total_drug_delivered + SumDrug(nbs, i + 1)

RECURSIVE SumDeliveries(_, _)
SumDeliveries(nbs, i) ==
    IF i > Len(nbs) THEN 0 ELSE nbs[i].deliveries_made + SumDeliveries(nbs, i + 1)

\* The fields of TumorNanobotModel: step_count; pc and next, the position inside
\* step() ("idle" between steps, "nanobots" in the nanobot loop before nanobot
\* next); halted, an exception left step() and ended the run; raised, a nanobot
\* step raised in the current model step; stepped, the nanobots whose step was
\* executed in it; env_steps, the microenv.step() calls made; metrics and
\* metrics_step, what _update_metrics stored and in which step; queen, with_queen;
\* oxygen and drug, the levels the cells read from the fields; guidance, the
\* dictionary of the current step; blockchain_enabled, current_nonce and
\* blockchain_logs (its length) of the ledger client, failed_reports the reports
\* that failed; sources, what the nanobots added to the source buffers; use_llm
\* of the queen, queen_calls the calls of queen.guide() made, queen_result and
\* queen_logged what the call of the current step came to and the entries it
\* appended to model.errors; growth_checks, the cells update_growth was called with
\* in the current step and their phases then, and divided, the cell divide() was
\* called with in it; attacked and secreted, the immune cells that attacked a tumor
\* cell and that secrete_cytokines was called for in the current step; phases,
\* the parts of step() executed so far in the current step, in order; integrated,
\* the buffers as the last microenv.step() applied them.
NewModel(queen, oxygen) ==
    [ step_count |-> 0, pc |-> "idle", next |-> 1, halted |-> FALSE,
      raised |-> FALSE, stepped |-> 0, env_steps |-> 0,
      metrics |-> [total_deliveries |-> 0, total_drug_delivered |-> 0],
      metrics_step |-> 0, queen |-> queen, oxygen |-> oxygen, drug |-> 0,
      guidance |-> NoGuidance,
      blockchain_enabled |-> FALSE, current_nonce |-> 0, blockchain_logs |-> 0,
      failed_reports |-> 0, sources |-> NoSources,
      use_llm |-> FALSE, queen_calls |-> 0, queen_result |-> "none",
      queen_logged |-> 0, growth_checks |-> << >>, divided |-> None,
      attacked |-> {}, secreted |-> {}, phases |-> << >>,
      integrated |-> NoSources ]

\* One run of the simulation: the model with its geometry's cells and its nanobots
Run(cs, ims, nbs, m) == [cells |-> cs, immune |-> ims, nanobots |-> nbs, model |-> m]

\* step() with reset_all_sources_sinks() called after _update_tumor_cells: the
\* sinks and sources of the cells are cleared before they are integrated
begin_step_late_reset(r, dtv, grow, kill, pol, q) ==
    LET cs1 == update_tumor_cells(r.cells, r.model.oxygen, r.model.drug, dtv, grow)
        im == update_immune_cells(r.immune, cs1, dtv, kill)
        count == r.model.step_count + 1
        turn == queen_turn(r.model, pol, count, r.nanobots, im.cells, im.immune, q)
    IN  Run(im.cells, im.immune, r.nanobots,
            [r.model EXCEPT !.step_count = count,
                            !.pc = IF turn.raised THEN "idle" ELSE "nanobots",
                            !.halted = turn.raised,
                            !.next = 1, !.raised = FALSE, !.stepped = 0,
                            !.sources =
                                apply_vessel_sources(NoSources),
                            !.phases =
                                << "tumor_cells", "reset", "immune_cells", "vessel_sources" >>
                                  \o (IF turn.result = "none" THEN << >>
                                      ELSE << "queen" >>),
                            !.guidance = turn.guidance,
                            !.queen_calls = IF turn.result = "none" THEN @ ELSE @ + 1,
                            !.queen_result = turn.result,
                            !.queen_logged = turn.logged,
                            !.growth_checks =
                                growth_checks(r.cells, r.model.oxygen, r.model.drug, dtv),
                            !.divided = grow.g,
                            !.attacked = im.attacked, !.secreted = im.secreted])

\* step() up to the nanobot loop: step_count, reset_all_sources_sinks (the
\* buffers are empty again), _update_tumor_cells, _update_immune_cells,
\* _apply_vessel_sources, the queen's guidance
begin_step(r, dtv, grow, kill, pol, q) ==
    LET cs1 == update_tumor_cells(r.cells, r.model.oxygen, r.model.drug, dtv, grow)
        im == update_immune_cells(r.immune, cs1, dtv, kill)
        count == r.model.step_count + 1
        turn == queen_turn(r.model, pol, count, r.nanobots, im.cells, im.immune, q)
    IN  Run(im.cells, im.immune, r.nanobots,
            [r.model EXCEPT !.step_count = count,
                            !.pc = IF turn.raised THEN "idle" ELSE "nanobots",
                            !.halted = turn.raised,
                            !.next = 1, !.raised = FALSE, !.stepped = 0,
                            !.sources =
                                apply_vessel_sources(
                                    cell_deposits(NoSources, r.cells, r.model.oxygen,
                                                  r.model.drug, dtv, 1)),
                            !.phases =
                                << "reset", "tumor_cells", "immune_cells", "vessel_sources" >>
                                  \o (IF turn.result = "none" THEN << >>
                                      ELSE << "queen" >>),
                            !.guidance = turn.guidance,
                            !.queen_calls = IF turn.result = "none" THEN @ ELSE @ + 1,
                            !.queen_result = turn.result,
                            !.queen_logged = turn.logged,
                            !.growth_checks =
                                growth_checks(r.cells, r.model.oxygen, r.model.drug, dtv),
                            !.divided = grow.g,
                            !.attacked = im.attacked, !.secreted = im.secreted])

\* One iteration of "for nanobot in self.nanobots: nanobot.step(guidance)". There
\* is no try around the call: an exception leaves step() and, main.py's loop
\* having no handler either, ends the run. fault: a call the step makes into the
\* microenvironment raises.
loop_step(r, pol, w, fault) ==
    LET n == r.model.next
        after(out) ==
            IF fault
            THEN Run(r.cells, r.immune, r.nanobots,
                     [r.model EXCEPT !.halted = TRUE, !.raised = TRUE, !.pc = "idle"])
            ELSE IF out.raised
            THEN Run(out.cells, r.immune, [r.nanobots EXCEPT ![n] = out.bot],
                     [out.model EXCEPT !.halted = TRUE, !.raised = TRUE, !.pc = "idle"])
            ELSE Run(out.cells, r.immune, [r.nanobots EXCEPT ![n] = out.bot],
                     [out.model EXCEPT !.next = n + 1, !.stepped = @ + 1,
                                       !.phases = Append(@, "nanobot")])
    IN  Only({after(out) :
                out \in {run_step(r.nanobots[n], n, r.cells, r.model.guidance, pol, w,
                                  r.model)}})

\* step() after the nanobot loop: microenv.step(), which applies the buffered
\* sources and sinks and clears the buffers, and _update_metrics()
end_step(r) ==
    Run(r.cells, r.immune, r.nanobots,
        [r.model EXCEPT !.pc = "idle", !.env_steps = @ + 1,
                        !.integrated = r.model.sources, !.sources = NoSources,
                        !.phases = @ \o << "integrate", "metrics" >>,
                        !.metrics = [total_deliveries |-> SumDeliveries(r.nanobots, 1),
                                     total_drug_delivered |-> SumDrug(r.nanobots, 1)],
                        !.metrics_step = r.model.step_count])

----------------------------------------------------------------------------
(* Initial state: the model after TumorNanobotModel.__init__ *)

\* The generators of a run that draws its values from the sets of their possible
\* outcomes: no stream is fixed
NoRng == [stream |-> << >>, pos |-> 0]

\* The fields of a run that reads one oxygen value and one drug concentration
\* for the whole tumor: no grid is kept
NoField == << >>

\* A run on a generated tumor: no segmentation was loaded
NoScan == << >>

\* A run whose reloads are not added up
NoReloads == << >>

\* The operation that produced the current state. For a nanobot step: the state
\* the nanobot was in, whether the step raised, the entries it appended to
\* model.errors, what its decision policy call (if any) came to and the action
\* _ask_llm_for_decision returned. For a cell operation: its argument (oxygen,
\* concentration or amount) and, for accumulate_drug, the boolean it returned.
Op(name, id) == [name |-> name, id |-> id, raised |-> FALSE, from |-> "none",
                 logged |-> 0, reply |-> "none", action |-> "none",
                 arg |-> 0, ret |-> FALSE]

\* A nanobot starts near a random vessel (offset with 20 um standard deviation)
NanobotStart == At(80, 0)

\* create_oxygen_substrate(self.microenv, boundary_value=38.0)
NoModel == NewModel(FALSE, 38)
NoTwin == Run(<< >>, << >>, << >>, NoModel)

\* max(5, len(tumor_cells) // 20) immune cells, each near a random vessel (offset
\* with 30 um standard deviation); none starts within attack range of a cell.
InitialImmune ==
    << NewImmuneCell(At(52, 10), "t_cell", 8),
       NewImmuneCell(At(40, -5), "macrophage", 4),
       NewImmuneCell(At(0, -48), "nk_cell", 8),
       NewImmuneCell(At(10, -40), "t_cell", 4),
       NewImmuneCell(At(-45, 52), "dendritic", 8) >>

Init ==
    /\ geometry = Tumor50
    /\ cells = InitialCells
    /\ immune = InitialImmune
    /\ \E llm \in BOOLEAN : nanobots = << NewNanobot(NanobotStart, llm) >>
    /\ model = NoModel
    /\ twin = NoTwin
    /\ dt = 1
    /\ policy \in BOOLEAN
    \* __init__ logs "IO_SECRET_KEY not found" when there is no API key
    /\ errors = IF policy THEN 0 ELSE 1
    /\ calls = 0
    /\ steps = 0
    /\ op = Op("init", None)
    /\ rng = NoRng
    /\ legs = << >>
    /\ microenv = NoField
    /\ scan = NoScan
    /\ reloaded = NoReloads

----------------------------------------------------------------------------
(* Operations *)

\* nanobot.step(guidance) for nanobot n. queen: the step is one the queen guides.
NanobotStep(n) ==
    /\ steps < MaxSteps
    /\ \E queen \in BOOLEAN,
          w \in WithTelemetry(StepDraws(nanobots[n], policy), model.blockchain_enabled) :
      \E out \in {run_step(nanobots[n], n, cells,
                            IF queen THEN guide_with_heuristic(nanobots, cells)
                            ELSE NoGuidance, policy, w, model)} :
            /\ errors + out.logged <= MaxErrors
            /\ steps' = steps + 1
            /\ nanobots' = [nanobots EXCEPT ![n] = out.bot]
            /\ cells' = out.cells
            /\ model' = out.model
            /\ errors' = errors + out.logged
            /\ op' = [Op("step", n) EXCEPT
                        !.raised = out.raised, !.from = nanobots[n].state,
                        !.logged = out.logged,
                        !.reply = IF out.asked THEN w.reply ELSE "none",
                        !.action = IF out.asked THEN ask_llm_for_decision(w.reply)
                                   ELSE "none"]
            /\ UNCHANGED <<reloaded, scan, microenv, rng, legs, immune, geometry, dt, policy,
                           calls, twin>>

\* cell.update_oxygen_status(oxygen, dt) for cell c
UpdateOxygenStatus(c) ==
    \E oxygen \in OxygenSet :
        /\ calls < MaxCalls
        /\ cells' = [cells EXCEPT ![c] = update_oxygen_status(@, oxygen, dt)]
        /\ calls' = calls + 1
        /\ op' = [Op("update_oxygen_status", c) EXCEPT !.arg = oxygen]
        /\ UNCHANGED <<reloaded, scan, microenv, rng, legs, immune, nanobots, geometry, dt,
                       policy, errors, steps, model, twin>>

\* cell.absorb_drug(drug, dt) for cell c
AbsorbDrug(c) ==
    \E conc \in ConcSet :
      \E mutate \in MutationDraws(cells[c], conc, dt) :
        /\ calls < MaxCalls
        /\ cells' = [cells EXCEPT ![c] = absorb_drug(@, conc, dt, mutate)]
        /\ calls' = calls + 1
        /\ op' = [Op("absorb_drug", c) EXCEPT !.arg = conc]
        /\ UNCHANGED <<reloaded, scan, microenv, rng, legs, immune, nanobots, geometry, dt,
                       policy, errors, steps, model, twin>>

\* cell.accumulate_drug(amount) for cell c
AccumulateDrug(c) ==
    \E amount \in DoseAmounts :
        /\ calls < MaxCalls
        /\ cells' = [cells EXCEPT ![c] = accumulate_drug(@, amount)]
        /\ calls' = calls + 1
        /\ op' = [Op("accumulate_drug", c) EXCEPT
                    !.arg = amount, !.ret = accumulate_drug_killed(cells[c], amount)]
        /\ UNCHANGED <<reloaded, scan, microenv, rng, legs, immune, nanobots, geometry, dt,
                       policy, errors, steps, model, twin>>

\* ImmuneCell.update(dt, tumor_cells) for immune cell i
ImmuneUpdate(i) ==
    \E kill \in (IF immune_attacks(immune[i], cells, dt)
                 THEN KillDraws(immune[i], dt) ELSE {FALSE}) :
      \E out \in {immune_update(immune[i], cells, dt, kill)} :
        /\ calls < MaxCalls
        /\ calls' = calls + 1
        /\ immune' = [immune EXCEPT ![i] = out.immune]
        /\ cells' = out.cells
        /\ op' = Op("immune_update", i)
        /\ UNCHANGED <<reloaded, scan, microenv, rng, legs, nanobots, geometry, dt, policy,
                       errors, steps, model, twin>>

\* The run held by the variables
MainRun == Run(cells, immune, nanobots, model)

SetMain(r) ==
    /\ cells' = r.cells
    /\ immune' = r.immune
    /\ nanobots' = r.nanobots
    /\ model' = r.model

\* The draws of step() before the nanobot loop, for run r
BeginDraws(r) ==
    {d \in [grow : GrowthDraws(r.cells, r.model.oxygen, r.model.drug, dt),
            kill : BOOLEAN,
            queen : QueenDraws(r.model, policy, r.model.step_count + 1)] :
        d.kill \in ImmuneDraws(r.immune,
                               update_tumor_cells(r.cells, r.model.oxygen, r.model.drug,
                                                  dt, d.grow), dt)}

\* The record of a nanobot step of the loop
LoopOp(r, w, fault) ==
    LET n == r.model.next
        record(out) ==
            [Op("step", n) EXCEPT
               !.raised = fault \/ out.raised, !.from = r.nanobots[n].state,
               !.logged = IF fault THEN 0 ELSE out.logged,
               !.reply = IF out.asked THEN w.reply ELSE "none",
               !.action = IF out.asked THEN ask_llm_for_decision(w.reply) ELSE "none"]
    IN  Only({record(out) :
                out \in {run_step(r.nanobots[n], n, r.cells, r.model.guidance, policy,
                                  w, r.model)}})

\* model.step() from its entry to the nanobot loop
ModelStart ==
    /\ model.pc = "idle" /\ ~model.halted
    /\ \E d \in BeginDraws(MainRun) :
         \E r \in {begin_step(MainRun, dt, d.grow, d.kill, policy, d.queen)} :
            /\ errors + r.model.queen_logged <= MaxErrors
            /\ SetMain(r)
            /\ errors' = errors + r.model.queen_logged
            /\ op' = [Op("model_begin", None) EXCEPT !.logged = r.model.queen_logged]
    /\ UNCHANGED <<reloaded, scan, microenv, rng, legs, geometry, dt, policy, calls, steps, twin>>

ModelBegin ==
    /\ model.step_count < MaxModelSteps
    /\ ModelStart

\* model.step(): the step of the next nanobot of the loop
ModelNanobot ==
    /\ model.pc = "nanobots" /\ model.next <= Len(nanobots)
    /\ \E w \in WithTelemetry(StepDraws(nanobots[model.next], policy),
                              model.blockchain_enabled), fault \in BOOLEAN :
       \E r \in {loop_step(MainRun, policy, w, fault)},
          o \in {LoopOp(MainRun, w, fault)} :
         /\ errors + o.logged <= MaxErrors
         /\ SetMain(r)
         /\ errors' = errors + o.logged
         /\ op' = o
    /\ UNCHANGED <<reloaded, scan, microenv, rng, legs, geometry, dt, policy, calls, steps, twin>>

\* model.step() after the nanobot loop
ModelEnd ==
    /\ model.pc = "nanobots" /\ model.next > Len(nanobots)
    /\ \E r \in {end_step(MainRun)} : SetMain(r)
    /\ op' = Op("model_end", None)
    /\ UNCHANGED <<reloaded, scan, microenv, rng, legs, geometry, dt, policy, errors, calls,
                   steps, twin>>

\* The paired runs: the run with the queen (the variables) and the run without
\* (twin) make the same calls with the same draws; a run that has ended stays as
\* it is while the other goes on.
Lead == IF model.halted THEN twin ELSE MainRun

\* Both runs take the step: main and other are the two runs after it
SetBoth(main, other) ==
    /\ SetMain(IF model.halted THEN MainRun ELSE main)
    /\ twin' = IF twin.model.halted THEN twin ELSE other

PairBegin ==
    /\ Lead.model.pc = "idle" /\ ~Lead.model.halted
    /\ Lead.model.step_count < MaxPairSteps
    /\ \E d \in BeginDraws(Lead) :
       \E main \in {begin_step(MainRun, dt, d.grow, d.kill, policy, d.queen)},
          other \in {begin_step(twin, dt, d.grow, d.kill, policy, d.queen)} :
         SetBoth(main, other)
    /\ op' = Op("model_begin", None)
    /\ UNCHANGED <<reloaded, scan, microenv, rng, legs, geometry, dt, policy, errors, calls, steps>>

PairNanobot ==
    /\ Lead.model.pc = "nanobots" /\ Lead.model.next <= Len(Lead.nanobots)
    /\ \E w \in WithTelemetry(StepDraws(Lead.nanobots[Lead.model.next], policy),
                              Lead.model.blockchain_enabled), fault \in BOOLEAN :
       \E main \in {loop_step(MainRun, policy, w, fault)},
          other \in {loop_step(twin, policy, w, fault)},
          o \in {LoopOp(Lead, w, fault)} :
         /\ SetBoth(main, other)
         /\ op' = o
    /\ UNCHANGED <<reloaded, scan, microenv, rng, legs, geometry, dt, policy, errors, calls, steps>>

PairEnd ==
    /\ Lead.model.pc = "nanobots" /\ Lead.model.next > Len(Lead.nanobots)
    /\ \E main \in {end_step(MainRun)}, other \in {end_step(twin)} :
         SetBoth(main, other)
    /\ op' = Op("model_end", None)
    /\ UNCHANGED <<reloaded, scan, microenv, rng, legs, geometry, dt, policy, errors, calls, steps>>

----------------------------------------------------------------------------
(* Spec: the nanobots of the small tumor, stepped in any order *)

Next == \E n \in DOMAIN nanobots : NanobotStep(n)

Spec == Init /\ [][Next]_vars

----------------------------------------------------------------------------
(* SpecCell: the cell operations on one tumor cell of any type, next to an     *)
(* immune cell, called in any order                                           *)

\* A viable cell in the outer band and a hypoxic one in the inner 30% of it, both
\* within reach of the immune cell
CellStarts == { NewTumorCell(At(30, 0), "viable", t) : t \in CellTypes }
       \cup { NewTumorCell(At(18, 0), "hypoxic", t) : t \in CellTypes }

InitCell ==
    /\ geometry = Tumor50
    /\ \E c \in CellStarts : cells = << c >>
    /\ \E t \in ImmuneCellTypes, a \in ActivationLevels :
          immune = << NewImmuneCell(ImmuneStart, t, a) >>
    /\ nanobots = << NewNanobot(NanobotStart, FALSE) >>
    /\ model = NoModel
    /\ twin = NoTwin
    /\ dt \in DtSet
    /\ policy = FALSE
    /\ errors = 1
    /\ calls = 0
    /\ steps = 0
    /\ op = Op("init", None)
    /\ rng = NoRng
    /\ legs = << >>
    /\ microenv = NoField
    /\ scan = NoScan
    /\ reloaded = NoReloads

NextCell ==
    \/ \E c \in DOMAIN cells : UpdateOxygenStatus(c)
    \/ \E c \in DOMAIN cells : AbsorbDrug(c)
    \/ \E c \in DOMAIN cells : AccumulateDrug(c)
    \/ \E i \in DOMAIN immune : ImmuneUpdate(i)

SpecCell == InitCell /\ [][NextCell]_vars

----------------------------------------------------------------------------
(* Properties of the nanobot state machine (Spec) *)

\* The nanobot the last step was taken by
Stepped == nanobots[op.id]

\* C1: for every nanobot, after any sequence of steps, the drug payload lies
\* between 0 and max_payload.
C1_PayloadWithinCapacity ==
    \A n \in DOMAIN nanobots :
        nanobots[n].drug_payload >= 0 /\ nanobots[n].drug_payload <= max_payload

\* A nanobot that has emptied its payload by deliveries and is being reloaded
C1_Witness ==
    \E n \in DOMAIN nanobots :
        /\ nanobots[n].state = "reloading"
        /\ nanobots[n].drug_payload = reload_rate
        /\ nanobots[n].total_drug_delivered = InitialPayload

\* C4 as stated: after any nanobot step that starts and ends in SEARCHING, at any
\* payload level, the nanobot is within tumor_radius of the tumor center.
C4_SearchingStaysInside ==
    (op.name = "step" /\ op.from = "searching" /\ Stepped.state = "searching")
        => InsideTumor(Stepped.position)

\* C4 amended: after any nanobot step that starts and ends in SEARCHING with a
\* payload of at least 10, the nanobot is within tumor_radius of the tumor
\* center; below 10 the boundary is not enforced.
C4_SearchingStaysInsideWhenLoaded ==
    (/\ op.name = "step" /\ op.from = "searching" /\ Stepped.state = "searching"
     /\ Stepped.drug_payload >= LowPayload)
        => InsideTumor(Stepped.position)

\* A loaded nanobot whose SEARCHING step took it out of the tumor and that the
\* clamp put back on the ring EdgeMargin inside the boundary
C4_Witness ==
    /\ op.name = "step" /\ op.from = "searching" /\ Stepped.state = "searching"
    /\ Stepped.drug_payload >= LowPayload
    /\ InsideTumor(Stepped.position)
    /\ Dist2(Stepped.position, Center) >=
          (TumorRadius - EdgeMargin - 1) * (TumorRadius - EdgeMargin - 1)

\* The transitions of the nanobot state machine
Transitions ==
    { <<"searching", "targeting">>, <<"targeting", "delivering">>,
      <<"targeting", "searching">>, <<"delivering", "returning">>,
      <<"delivering", "searching">>, <<"returning", "reloading">>,
      <<"returning", "searching">>, <<"reloading", "searching">> }

\* C6: each nanobot step performs at most one state transition, and only along
\* S->T, T->D, T->S, D->R, D->S, R->RL, R->S, RL->S.
C6_OnlyLegalTransitions ==
    op.name = "step" =>
        (Stepped.state = op.from \/ <<op.from, Stepped.state>> \in Transitions)

\* A nanobot that went SEARCHING, TARGETING, DELIVERING, RETURNING and has just
\* entered RELOADING
C6_Witness ==
    /\ op.name = "step" /\ op.from = "returning" /\ Stepped.state = "reloading"
    /\ Stepped.deliveries_made > 0

\* C10: a failed decision-policy call by a SEARCHING nanobot is caught locally,
\* never propagates out of the step, and is recorded in model.errors.
C10_PolicyFailureRecorded ==
    (op.name = "step" /\ op.from = "searching" /\ op.reply = "api_failure")
        => (~op.raised /\ op.logged >= 1)

\* C11: the decision policy consulted by a nanobot always yields exactly one of
\* target, follow_trail, explore, return; a failure of the external call and an
\* unrecognized reply yield explore, and the step then ends without an exception,
\* the nanobot still SEARCHING.
C11_PolicyYieldsToken ==
    (op.name = "step" /\ op.reply # "none") =>
        /\ op.action \in PolicyTokens
        /\ op.reply \in {"api_failure", "unrecognized"} =>
              (op.action = "explore" /\ ~op.raised /\ Stepped.state = "searching")

\* A nanobot under the policy got a reply that is none of the tokens and explored
C11_Witness ==
    /\ op.name = "step" /\ op.from = "searching"
    /\ op.reply = "unrecognized" /\ op.action = "explore"
    /\ Stepped.is_llm_controlled /\ Stepped.state = "searching"

----------------------------------------------------------------------------
(* SpecScenario: one SEARCHING nanobot with a full payload and one living cell *)
(* of any type inside the tumor, 20 um away; no decision policy, no immune    *)
(* cells                                                                      *)

\* Where the nanobot starts: at the center, in the outer band, outside the tumor
ScenarioStarts == { At(0, 0), At(30, 0), At(64, 0) }

\* Offsets of length 20 from the nanobot to the cell
ScenarioOffsets ==
    { <<20, 0>>, <<-20, 0>>, <<0, 20>>, <<0, -20>>, <<12, 16>>, <<-16, -12>> }

InitScenario ==
    /\ geometry = Tumor50
    /\ \E p \in ScenarioStarts, o \in ScenarioOffsets, t \in CellTypes,
          ph \in {"viable", "hypoxic"}, llm \in BOOLEAN :
          /\ InsideTumor(VAdd(p, o))
          /\ cells = << NewTumorCell(VAdd(p, o), ph, t) >>
          /\ nanobots = << NewNanobot(p, llm) >>
    /\ immune = << >>
    /\ model = NoModel
    /\ twin = NoTwin
    /\ dt = 1
    /\ policy = FALSE
    /\ errors = 1
    /\ calls = 0
    /\ steps = 0
    /\ op = Op("init", None)
    /\ rng = NoRng
    /\ legs = << >>
    /\ microenv = NoField
    /\ scan = NoScan
    /\ reloaded = NoReloads

\* The scenario is observed for its first steps only
MaxScenarioSteps == 5

ScenarioStep(n) ==
    /\ steps < MaxScenarioSteps
    /\ NanobotStep(n)

NextScenario == \E n \in DOMAIN nanobots : ScenarioStep(n)

SpecScenario == InitScenario /\ [][NextScenario]_vars

----------------------------------------------------------------------------
(* SpecModel: model.step() of a run with two rule-based nanobots, the first   *)
(* starting outside the rim of the tumor, the second near the far vessel      *)

RimStart == At(-80, -40)

InitModel ==
    /\ geometry = Tumor50
    /\ cells = InitialCells
    /\ immune = InitialImmune
    /\ nanobots = << NewNanobot(RimStart, FALSE), NewNanobot(NanobotStart, FALSE) >>
    /\ \E queen \in BOOLEAN, oxygen \in OxygenSet : model = NewModel(queen, oxygen)
    /\ twin = NoTwin
    /\ dt = 1
    /\ policy = FALSE
    /\ errors = 1
    /\ calls = 0
    /\ steps = 0
    /\ op = Op("init", None)
    /\ rng = NoRng
    /\ legs = << >>
    /\ microenv = NoField
    /\ scan = NoScan
    /\ reloaded = NoReloads

NextModel ==
    \/ ModelBegin
    \/ ModelNanobot
    \/ ModelEnd

SpecModel == InitModel /\ [][NextModel]_vars

----------------------------------------------------------------------------
(* SpecPair: two runs with one rule-based nanobot, same seed and              *)
(* configuration, one with the heuristic queen and one without                *)

InitPair ==
    /\ geometry = Tumor50
    /\ cells = InitialCells
    /\ immune = InitialImmune
    /\ \E start \in {NanobotStart, RimStart} :
          nanobots = << NewNanobot(start, FALSE) >>
    /\ \E oxygen \in OxygenSet :
          /\ model = NewModel(TRUE, oxygen)
          /\ twin = Run(cells, immune, nanobots, NewModel(FALSE, oxygen))
    /\ dt = 1
    /\ policy = FALSE
    /\ errors = 1
    /\ calls = 0
    /\ steps = 0
    /\ op = Op("init", None)
    /\ rng = NoRng
    /\ legs = << >>
    /\ microenv = NoField
    /\ scan = NoScan
    /\ reloaded = NoReloads

NextPair ==
    \/ PairBegin
    \/ PairNanobot
    \/ PairEnd

SpecPair == InitPair /\ [][NextPair]_vars

----------------------------------------------------------------------------
(* SpecQueen: model.step() of a run in a tumor of radius 80 um with two       *)
(* rule-based nanobots, with or without a queen, the queen heuristic or LLM   *)

\* tumor_radius 80: vessel_density 0.01 gives 5 vessels, at 90-110% of the radius
Tumor80 ==
    [tumor_radius |-> 80,
     vessels |-> << At(80, 0), At(0, -76), At(-60, 55), At(-75, -20), At(30, 70) >>]

\* tumor_radius 80: cell_density 0.001 gives 18 cells between the necrotic core
\* (20 um) and the radius, hypoxic below 38 um from the center. Here they all
\* lie in the left half, more than 100 um from the vessel at the right rim.
QueenCells ==
    << NewTumorCell(At(-30, 0), "hypoxic", "stem_cell"),
       NewTumorCell(At(-30, 15), "hypoxic", "stem_cell"),
       NewTumorCell(At(-30, -15), "hypoxic", "resistant"),
       NewTumorCell(At(-30, 30), "viable", "resistant"),
       NewTumorCell(At(-30, -30), "viable", "differentiated"),
       NewTumorCell(At(-42, 0), "viable", "resistant"),
       NewTumorCell(At(-42, 15), "viable", "differentiated"),
       NewTumorCell(At(-42, -15), "viable", "differentiated"),
       NewTumorCell(At(-42, 30), "viable", "resistant"),
       NewTumorCell(At(-42, -30), "viable", "differentiated"),
       NewTumorCell(At(-54, 0), "viable", "differentiated"),
       NewTumorCell(At(-54, 15), "viable", "invasive"),
       NewTumorCell(At(-54, -15), "viable", "differentiated"),
       NewTumorCell(At(-54, 30), "viable", "invasive"),
       NewTumorCell(At(-54, -30), "viable", "differentiated"),
       NewTumorCell(At(-66, 0), "viable", "invasive"),
       NewTumorCell(At(-66, 15), "viable", "invasive"),
       NewTumorCell(At(-66, -15), "viable", "differentiated") >>

\* The first nanobot starts at the vessel on the right rim, the second next to
\* the cells
QueenNanobots == << NewNanobot(At(80, 0), FALSE), NewNanobot(At(-70, -10), FALSE) >>

\* The run is observed up to the first step in which the queen is asked
MaxQueenSteps == 10

InitQueen ==
    /\ geometry = Tumor80
    /\ cells = QueenCells
    /\ immune = InitialImmune
    /\ nanobots = QueenNanobots
    /\ \E queen \in BOOLEAN, use_llm \in BOOLEAN, oxygen \in OxygenSet :
          model = [NewModel(queen, oxygen) EXCEPT !.use_llm = use_llm]
    /\ twin = NoTwin
    /\ dt = 1
    /\ policy = TRUE
    /\ errors = 0
    /\ calls = 0
    /\ steps = 0
    /\ op = Op("init", None)
    /\ rng = NoRng
    /\ legs = << >>
    /\ microenv = NoField
    /\ scan = NoScan
    /\ reloaded = NoReloads

QueenRunBegin ==
    /\ model.step_count < MaxQueenSteps
    /\ ModelStart

NextQueen ==
    \/ QueenRunBegin
    \/ ModelNanobot
    \/ ModelEnd

SpecQueen == InitQueen /\ [][NextQueen]_vars

\* C13: if the LLM queen policy fails, guide() returns the guidance of the default
\* heuristic and no exception reaches the model step; if guide() itself fails,
\* the model step logs the error and uses empty guidance; in both cases the
\* step goes on to the nanobot loop and, no nanobot raising, steps every nanobot.
C13_QueenFailureContained ==
    /\ (op.name = "model_begin" /\ model.queen_result = "api_failure") =>
          /\ ~model.halted /\ model.pc = "nanobots" /\ op.logged = 1
          /\ model.guidance = guide_with_heuristic(nanobots, cells)
    /\ (op.name = "model_begin" /\ model.queen_result = "guide_failure") =>
          /\ ~model.halted /\ model.pc = "nanobots" /\ op.logged = 1
          /\ model.guidance = NoGuidance
    /\ ( /\ model.queen_result \in {"api_failure", "guide_failure"}
         /\ model.pc = "idle" /\ ~model.raised )
       => (~model.halted /\ model.stepped = Len(nanobots))

\* A model step whose LLM queen policy failed has run to its end: error logged,
\* both nanobots stepped, microenvironment and metrics updated
C13_Witness ==
    /\ model.queen_result = "api_failure" /\ model.use_llm
    /\ op.name = "model_end"
    /\ errors = 1
    /\ model.stepped = Len(nanobots)
    /\ model.env_steps = model.step_count
    /\ model.metrics_step = model.step_count

\* C14: at a step of the default (heuristic) queen, every SEARCHING nanobot at
\* full payload gets as guidance the direction toward the nearest hypoxic cell,
\* provided that cell is at a non-zero distance, and a nanobot in any other
\* state gets no entry.
C14_LoadedSearchersGuided ==
    (op.name = "model_begin" /\ model.queen_result = "ok" /\ ~model.use_llm) =>
       \A n \in DOMAIN nanobots :
          LET hypoxic == {c \in DOMAIN cells : cells[c].phase = "hypoxic"}
              nearest == NearestWithin(hypoxic, cells, nanobots[n].position,
                                       2 * DomainSize)
          IN  /\ ( /\ nanobots[n].state = "searching"
                   /\ nanobots[n].drug_payload = max_payload
                   /\ hypoxic # {}
                   /\ cells[nearest].position # nanobots[n].position )
                 => ( /\ n \in DOMAIN model.guidance
                      /\ model.guidance[n] =
                            Scale(VSub(cells[nearest].position, nanobots[n].position),
                                  speed) )
              /\ nanobots[n].state # "searching" => n \notin DOMAIN model.guidance

\* C15: queen.guide() is called only in the model steps whose count is a
\* multiple of 10 and only when there is a queen (once per such step); in every
\* other step the guidance passed to the nanobots is empty.
C15_QueenOnlyWhenDue ==
    /\ model.queen_calls =
          (IF model.queen THEN model.step_count \div QueenInterval ELSE 0)
    /\ (~model.queen \/ model.step_count % QueenInterval # 0) =>
          (model.guidance = NoGuidance /\ model.queen_result = "none")

\* The queen has been asked for the first time, in step 10, after nine steps
\* without guidance
C15_Witness ==
    /\ model.queen /\ model.step_count = QueenInterval
    /\ model.pc = "nanobots"
    /\ model.queen_calls = 1 /\ model.queen_result = "ok"

----------------------------------------------------------------------------
(* SpecHypoxia: model.step() of a run with no nanobots and no vessels, the     *)
(* oxygen at the cells below every hypoxic threshold in every step            *)

\* TumorGeometry with vessel_density 0: no vessel is generated
NoVessels50 == [tumor_radius |-> 50, vessels |-> << >>]

\* Oxygen levels (mmHg) below the lowest hypoxic threshold (8)
LowOxygen == {0, 7}

\* Timesteps of 2 and 10 minutes
HypoxiaDts == {20, 100}

\* Without vessels the max(5, n // 20) = 5 immune cells are placed uniformly in
\* the square around the tumor: here all of them away from the cells, ...
ImmuneFar ==
    << NewImmuneCell(At(30, 10), "t_cell", 8),
       NewImmuneCell(At(40, -5), "macrophage", 4),
       NewImmuneCell(At(0, -45), "nk_cell", 6),
       NewImmuneCell(At(10, -40), "t_cell", 3),
       NewImmuneCell(At(20, 40), "dendritic", 5) >>

\* ... or all of them among the cells
ImmuneNear ==
    << NewImmuneCell(At(-42, 2), "t_cell", 8),
       NewImmuneCell(At(-48, 5), "macrophage", 4),
       NewImmuneCell(At(-36, 10), "nk_cell", 6),
       NewImmuneCell(At(-36, -10), "t_cell", 3),
       NewImmuneCell(At(-28, 0), "dendritic", 5) >>

\* The stem cell is necrotic after 31 steps of 2 minutes (62 min > 60 min)
MaxHypoxiaSteps == 32

InitHypoxia ==
    /\ geometry = NoVessels50
    /\ cells = InitialCells
    /\ immune \in {ImmuneFar, ImmuneNear}
    /\ nanobots = << >>
    /\ \E oxygen \in LowOxygen : model = NewModel(FALSE, oxygen)
    /\ twin = NoTwin
    /\ dt \in HypoxiaDts
    /\ policy = FALSE
    /\ errors = 0
    /\ calls = 0
    /\ steps = 0
    /\ op = Op("init", None)
    /\ rng = NoRng
    /\ legs = << >>
    /\ microenv = NoField
    /\ scan = NoScan
    /\ reloaded = NoReloads

HypoxiaBegin ==
    /\ model.step_count < MaxHypoxiaSteps
    /\ ModelStart

NextHypoxia ==
    \/ HypoxiaBegin
    \/ ModelEnd

SpecHypoxia == InitHypoxia /\ [][NextHypoxia]_vars

\* A model step can begin
HypoxiaCanBegin ==
    model.pc = "idle" /\ ~model.halted /\ model.step_count < MaxHypoxiaSteps

\* The simulation loop calls model.step() again and again, and without nanobots
\* nothing in a step can raise: a step that has begun ends, and a step that can
\* begin does (weak fairness of HypoxiaBegin, whose enabling condition is
\* HypoxiaCanBegin, written out)
FairSpecHypoxia ==
    /\ SpecHypoxia
    /\ WF_vars(ModelEnd)
    /\ ([]<>(~HypoxiaCanBegin) \/ []<><<HypoxiaBegin>>_vars)

\* No immune cell is within attack range of cell c
OutOfReach(c) ==
    \A i \in DOMAIN immune :
       Dist2(immune[i].position, cells[c].position) >= AttackRange * AttackRange

\* C17 as stated: with no nanobots, no vessels and oxygen below the hypoxic
\* threshold at every step, the number of NECROTIC cells becomes positive after
\* finitely many steps.
C17_NecroticCountPositive ==
    <>(\E c \in DOMAIN cells : cells[c].phase = "necrotic")

\* C17 as the code has it: with no nanobots, no vessels and oxygen below the
\* hypoxic threshold at every step, every cell eventually is NECROTIC or has died
\* of another cause (an immune attack) before; and once a living cell is out of
\* the reach of every immune cell, the number of NECROTIC cells becomes positive.
C17_HypoxicCellsBecomeNecrotic ==
    /\ \A c \in DOMAIN InitialCells :
          <>( \/ cells[c].phase = "necrotic"
              \/ ~cells[c].is_alive /\ cells[c].time_of_death # "necrosis" )
    /\ (\E c \in DOMAIN cells : cells[c].is_alive /\ OutOfReach(c))
          ~> (\E c \in DOMAIN cells : cells[c].phase = "necrotic")

\* After some steps without nanobots and vessels one cell has become NECROTIC,
\* its hypoxic time above its threshold, and another was killed by an immune
\* cell before
C17_Witness ==
    /\ nanobots = << >> /\ Vessels = << >>
    /\ model.step_count >= 3 /\ model.pc = "idle"
    /\ \E c \in DOMAIN cells :
          /\ cells[c].phase = "necrotic" /\ cells[c].time_of_death = "necrosis"
          /\ cells[c].hypoxic_duration > necrotic_time_threshold(cells[c].cell_type)
    /\ \E c \in DOMAIN cells : cells[c].time_of_death = "immune_attack"

----------------------------------------------------------------------------
(* SpecExposure: one cell with resistance_level 0 and drug_sensitivity 1 in a  *)
(* constant drug concentration, absorb_drug called with varying timesteps     *)

\* The constant concentration of the exposure
ExposureConcs == {1, 2}

\* The timesteps an exposure is split into: 0.1 and 0.2 min
ExposureDts == {1, 2}

\* A cell of any type set up with resistance_level 0 and drug_sensitivity 1
ExposureCells ==
    { [NewTumorCell(At(30, 0), "viable", t) EXCEPT
          !.resistance_level = 0, !.drug_sensitivity = 1000] : t \in CellTypes }

InitExposure ==
    /\ geometry = Tumor50
    /\ \E c \in ExposureCells : cells = << c >>
    /\ immune = << >>
    /\ nanobots = << >>
    /\ \E conc \in ExposureConcs : model = [NoModel EXCEPT !.drug = conc]
    /\ twin = NoTwin
    /\ dt \in ExposureDts
    /\ policy = FALSE
    /\ errors = 0
    /\ calls = 0
    /\ steps = 0
    /\ op = Op("init", None)
    /\ rng = NoRng
    /\ legs = << >>
    /\ microenv = NoField
    /\ scan = NoScan
    /\ reloaded = NoReloads

\* cell.absorb_drug(C, dt) with the next timestep of the exposure
ExposeCell ==
    \E dtv \in ExposureDts :
      \E mutate \in MutationDraws(cells[1], model.drug, dtv) :
        /\ calls < MaxCalls
        /\ cells' = [cells EXCEPT ![1] = absorb_drug(@, model.drug, dtv, mutate)]
        /\ dt' = dtv
        /\ calls' = calls + 1
        /\ steps' = steps + dtv
        /\ op' = [Op("absorb_drug", 1) EXCEPT !.arg = model.drug]
        /\ UNCHANGED <<reloaded, scan, microenv, rng, legs, immune, nanobots, geometry, policy,
                       errors, model, twin>>

NextExposure == ExposeCell

SpecExposure == InitExposure /\ [][NextExposure]_vars

\* C * T * 1.0 for the exposure so far, in the unit of accumulated_drug
ExposureDose == model.drug * steps * 1000000

\* C18 as stated: at the end of an exposure to the constant concentration C for
\* the total time T, however split, the cell has accumulated_drug = C * T.
C18_ExposureAccumulatesCT ==
    op.name = "absorb_drug" => cells[1].accumulated_drug = ExposureDose

\* C18 as the code has it: a call of the exposure made on the cell while it is
\* alive and still has resistance_level 0 and drug_sensitivity 1 (no adaptive
\* mutation so far) leaves accumulated_drug = C * T.
C18_ExposureAccumulatesCTWhileUnadapted ==
    [][( /\ cells[1].is_alive
         /\ cells[1].resistance_level = 0
         /\ cells[1].drug_sensitivity = 1000 )
       => cells'[1].accumulated_drug = model.drug * steps' * 1000000]_vars

\* After at least three calls with timesteps of both lengths the cell is alive
\* and unadapted and holds C * T
C18_Witness ==
    /\ op.name = "absorb_drug"
    /\ calls >= 3 /\ steps > calls /\ steps < 2 * calls
    /\ cells[1].is_alive
    /\ cells[1].resistance_level = 0 /\ cells[1].drug_sensitivity = 1000
    /\ cells[1].accumulated_drug > 0
    /\ cells[1].accumulated_drug = ExposureDose

----------------------------------------------------------------------------
(* SpecLedger: two runs with one nanobot, same seed and configuration, one    *)
(* reporting to the ledger (its reports succeeding or failing) and one with   *)
(* the ledger disabled                                                        *)

\* A start 10 um from the rim cell: lock, capture, deliver and kill in 3 steps
LedgerStart == At(-60, 0)

\* The runs are observed for their first model steps
MaxLedgerSteps == 5

InitLedger ==
    /\ geometry = Tumor50
    /\ cells = InitialCells
    /\ immune = InitialImmune
    /\ \E start \in {LedgerStart, NanobotStart}, llm \in BOOLEAN :
          nanobots = << NewNanobot(start, llm) >>
    /\ \E oxygen \in LowOxygen :
          /\ model = [NewModel(FALSE, oxygen) EXCEPT !.blockchain_enabled = TRUE]
          /\ twin = Run(cells, immune, nanobots, NewModel(FALSE, oxygen))
    /\ dt = 1
    /\ policy = TRUE
    /\ errors = 0
    /\ calls = 0
    /\ steps = 0
    /\ op = Op("init", None)
    /\ rng = NoRng
    /\ legs = << >>
    /\ microenv = NoField
    /\ scan = NoScan
    /\ reloaded = NoReloads

LedgerBegin ==
    /\ Lead.model.step_count < MaxLedgerSteps
    /\ PairBegin

NextLedger ==
    \/ LedgerBegin
    \/ PairNanobot
    \/ PairEnd

SpecLedger == InitLedger /\ [][NextLedger]_vars

\* C12: a failure of a ledger report never propagates out of the nanobot's step
\* and leaves the simulation state unchanged: nanobot state, position, payload,
\* target and delivery counters, all cells and the source buffers are, after
\* every step, those of the run with the ledger disabled, and a step raises in
\* one run only if it does in the other.
C12_TelemetryFailureIsInert ==
    /\ nanobots = twin.nanobots
    /\ cells = twin.cells
    /\ model.sources = twin.model.sources
    /\ model.raised = twin.model.raised
    /\ model.halted = twin.model.halted

\* The reporting run has delivered and killed a cell with both reports of the
\* delivery failing, one of them after taking a nonce
C12_Witness ==
    /\ model.blockchain_enabled /\ ~twin.model.blockchain_enabled
    /\ op.name = "step" /\ op.from = "delivering" /\ ~op.raised
    /\ model.failed_reports >= 2
    /\ model.current_nonce > model.blockchain_logs
    /\ nanobots[1].deliveries_made >= 1
    /\ \E c \in DOMAIN cells : cells[c].time_of_death = "apoptosis"
    /\ model.sources.drug > 0

----------------------------------------------------------------------------
(* Properties of the cell operations (SpecCell) *)

\* C2: once a tumor cell is dead, no call (update_oxygen_status, absorb_drug,
\* accumulate_drug, an immune cell's update and attack) changes its phase, its
\* cause of death, its accumulated_drug or its resistance_level.
C2_DeadCellFrozen ==
    [][\A c \in DOMAIN cells :
          ~cells[c].is_alive =>
             /\ cells'[c].is_alive = FALSE
             /\ cells'[c].phase = cells[c].phase
             /\ cells'[c].time_of_death = cells[c].time_of_death
             /\ cells'[c].accumulated_drug = cells[c].accumulated_drug
             /\ cells'[c].resistance_level = cells[c].resistance_level]_vars

\* An active immune cell that had a target has run update() and found no living
\* cell: its earlier target, still within attack range, was dead during the call.
C2_Witness ==
    /\ op.name = "immune_update"
    /\ immune[op.id].is_active
    /\ immune[op.id].age > dt
    /\ immune[op.id].target_cell = None
    /\ \E c \in DOMAIN cells :
          /\ ~cells[c].is_alive
          /\ Dist2(immune[op.id].position, cells[c].position) < AttackRange * AttackRange

\* C16: hypoxia is reversible and not cumulative: every VIABLE cell has
\* hypoxic_duration = 0; a call with oxygen at or above the threshold returns a
\* HYPOXIC cell to VIABLE with hypoxic_duration 0; a call with oxygen below it
\* adds dt to the current run; and a cell becomes NECROTIC only in such a call,
\* when the current run exceeds its necrotic_time_threshold.
C16_HypoxiaReversible ==
    /\ [](\A c \in DOMAIN cells :
            /\ cells[c].phase = "viable" => cells[c].hypoxic_duration = 0
            /\ cells[c].phase = "necrotic" =>
                  cells[c].hypoxic_duration > necrotic_time_threshold(cells[c].cell_type))
    /\ [][\A c \in DOMAIN cells :
            /\ (cells'[c].phase = "necrotic" /\ cells[c].phase # "necrotic") =>
                  /\ op'.name = "update_oxygen_status" /\ op'.id = c
                  /\ op'.arg < hypoxic_threshold(cells[c].cell_type)
                  /\ cells'[c].hypoxic_duration = cells[c].hypoxic_duration + dt
            /\ ( /\ op'.name = "update_oxygen_status" /\ op'.id = c
                 /\ cells[c].is_alive
                 /\ op'.arg >= hypoxic_threshold(cells[c].cell_type) )
               => ( /\ cells'[c].is_alive
                    /\ cells'[c].hypoxic_duration =
                          (IF cells[c].phase = "hypoxic" THEN 0
                           ELSE cells[c].hypoxic_duration)
                    /\ cells'[c].phase =
                          (IF cells[c].phase = "hypoxic" THEN "viable"
                           ELSE cells[c].phase) )
            /\ ( /\ op'.name = "update_oxygen_status" /\ op'.id = c
                 /\ cells[c].is_alive
                 /\ op'.arg < hypoxic_threshold(cells[c].cell_type) )
               => ( /\ cells'[c].hypoxic_duration = cells[c].hypoxic_duration + dt
                    /\ cells'[c].phase \in {"hypoxic", "necrotic"}
                    /\ cells'[c].phase = "necrotic" <=>
                          cells'[c].hypoxic_duration
                             > necrotic_time_threshold(cells[c].cell_type) )]_vars

\* A cell generated HYPOXIC (inner band) is VIABLE again, with hypoxic_duration
\* 0, after a call with restored oxygen that was not the first call
C16_Witness ==
    /\ op.name = "update_oxygen_status"
    /\ op.arg >= hypoxic_threshold(cells[op.id].cell_type)
    /\ cells[op.id].position = At(18, 0)
    /\ cells[op.id].phase = "viable"
    /\ cells[op.id].hypoxic_duration = 0
    /\ cells[op.id].is_alive
    /\ calls >= 2

\* C19: resistance_level stays within [0, 1] for every cell, and no call lowers
\* the accumulated_drug of a living cell.
C19_ResistanceBoundedDrugMonotone ==
    /\ [](\A c \in DOMAIN cells :
            cells[c].resistance_level >= 0 /\ cells[c].resistance_level <= 1000)
    /\ [][\A c \in DOMAIN cells :
            cells[c].is_alive =>
               cells'[c].accumulated_drug >= cells[c].accumulated_drug]_vars

\* An immune attack has brought the resistance of a living cell, which has
\* absorbed drug, down to the lower bound
C19_Witness ==
    /\ op.name = "immune_update"
    /\ \E c \in DOMAIN cells :
          /\ cells[c].is_alive
          /\ cells[c].resistance_level = 0
          /\ cells[c].accumulated_drug > 0

\* C20: accumulate_drug(amount) on a living cell adds 5 * amount to
\* accumulated_drug and returns True exactly when the cell dies in the call,
\* which is exactly when the new accumulated_drug is at or above
\* lethal_drug_dose (not adjusted by resistance); the cell is then APOPTOTIC.
\* On a dead cell it returns False and changes nothing.
C20_AccumulateDrugContract ==
    [][\A c \in DOMAIN cells :
          (op'.name = "accumulate_drug" /\ op'.id = c) =>
             IF cells[c].is_alive
             THEN /\ cells'[c].accumulated_drug =
                        cells[c].accumulated_drug + 5 * op'.arg * UgUnit
                  /\ op'.ret <=> ~cells'[c].is_alive
                  /\ ~cells'[c].is_alive <=>
                        cells'[c].accumulated_drug
                           >= lethal_drug_dose(cells[c].cell_type)
                  /\ ~cells'[c].is_alive =>
                        /\ cells'[c].phase = "apoptotic"
                        /\ cells'[c].time_of_death = "apoptosis"
                  /\ cells'[c].is_alive => cells'[c].phase = cells[c].phase
             ELSE ~op'.ret /\ cells'[c] = cells[c]]_vars

\* accumulate_drug has killed, and returned True for, a cell whose
\* accumulated_drug lies between lethal_drug_dose and the resistance-adjusted
\* threshold under which absorb_drug had left it alive
C20_Witness ==
    /\ op.name = "accumulate_drug" /\ op.ret
    /\ ~cells[op.id].is_alive
    /\ cells[op.id].phase = "apoptotic"
    /\ cells[op.id].accumulated_drug >= lethal_drug_dose(cells[op.id].cell_type)
    /\ cells[op.id].accumulated_drug < lethal_threshold(cells[op.id])

\* C3 as stated: in every state reached by absorb_drug, accumulate_drug and
\* immune-attack calls, a cell at or above lethal_drug_dose * (1 + resistance_level)
\* is dead and a cell one unit below it is alive.
C3_LethalBoundaryAlways ==
    \A c \in DOMAIN cells :
       /\ cells[c].accumulated_drug >= lethal_threshold(cells[c]) => ~cells[c].is_alive
       /\ cells[c].accumulated_drug = lethal_threshold(cells[c]) - 1 => cells[c].is_alive

\* C3 as the code has it: an absorb_drug call on a living cell leaves it dead
\* exactly when its accumulated_drug has reached lethal_drug_dose *
\* (1 + resistance_level), boundary included, and alive below it.
C3_LethalBoundaryAfterAbsorb ==
    [][\A c \in DOMAIN cells :
          (op'.name = "absorb_drug" /\ op'.id = c /\ cells[c].is_alive) =>
             (cells'[c].is_alive <=>
                cells'[c].accumulated_drug < lethal_threshold(cells'[c]))]_vars

\* absorb_drug has killed a cell whose accumulated_drug is exactly at the threshold
C3_Witness ==
    /\ op.name = "absorb_drug"
    /\ ~cells[op.id].is_alive
    /\ cells[op.id].time_of_death = "apoptosis"
    /\ cells[op.id].phase = "apoptotic"
    /\ cells[op.id].accumulated_drug = lethal_threshold(cells[op.id])

----------------------------------------------------------------------------
(* Properties of the delivery scenario (SpecScenario) *)

\* C7: with one SEARCHING nanobot at full payload and one living cell inside the
\* tumor 20 um away, the cell is APOPTOTIC after three nanobot steps (lock,
\* capture within the capture radius, one amplified delivery), fewer than 5,
\* and it stays so.
C7_CellApoptoticAfterThreeSteps ==
    /\ steps >= 3 => (cells[1].phase = "apoptotic" /\ ~cells[1].is_alive)
    /\ steps < 3 => cells[1].is_alive

\* The third step was the delivery that killed the cell
C7_Witness ==
    /\ steps = 3
    /\ op.name = "step" /\ op.from = "delivering"
    /\ cells[1].phase = "apoptotic"
    /\ cells[1].time_of_death = "apoptosis"
    /\ cells[1].accumulated_drug = DeliveryPerTick * ProximityMultiplier * UgUnit
    /\ nanobots[1].total_drug_delivered = DeliveryPerTick

----------------------------------------------------------------------------
(* Properties of the model step (SpecModel, SpecPair) *)

\* C5: a position clamp that finds a nanobot outside the tumor radius, not
\* RETURNING or RELOADING, with payload >= 10 and not pursuing a target inside the
\* tumor boundary, repositions it to the tumor edge and cancels its target; so
\* no step that ends with a clamp (a SEARCHING or TARGETING move) leaves such a
\* nanobot outside, a TARGETING nanobot whose target lies outside included.
C5_ClampRepositions ==
    ( /\ op.name = "step" /\ ~op.raised
      /\ op.from \in {"searching", "targeting"}
      /\ Stepped.state = op.from
      /\ Stepped.drug_payload >= LowPayload
      /\ ~InsideTumor(Stepped.position) )
    => ( /\ Stepped.target_cell # None
         /\ InsideTumor(cells[Stepped.target_cell].position) )

\* C9: when a nanobot's step raises during a model step, the model step still
\* steps every nanobot, advances the microenvironment and updates the metrics.
C9_AgentIsolation ==
    (model.pc = "idle" /\ model.raised) =>
        /\ model.stepped = Len(nanobots)
        /\ model.env_steps = model.step_count
        /\ model.metrics_step = model.step_count

----------------------------------------------------------------------------
(* SpecGrowth: model.step() of a run with no nanobots in which the cells read *)
(* an oxygen level between the hypoxic thresholds of the cell types and a     *)
(* drug concentration, so that in one step some cells are viable and can      *)
(* divide, some are hypoxic and some die                                      *)

\* 9 mmHg is hypoxic for differentiated (10) and invasive (12) cells and
\* sufficient for stem (8) and resistant (9) cells; 38 mmHg is sufficient for all
GrowthOxygen == {9, 38}

MaxGrowthSteps == 3

InitGrowth ==
    /\ geometry = Tumor50
    /\ cells = InitialCells
    /\ immune = InitialImmune
    /\ nanobots = << >>
    /\ \E oxygen \in GrowthOxygen, conc \in ConcSet :
          model = [NewModel(FALSE, oxygen) EXCEPT !.drug = conc]
    /\ twin = NoTwin
    /\ dt \in DtSet
    /\ policy = FALSE
    /\ errors = 0
    /\ calls = 0
    /\ steps = 0
    /\ op = Op("init", None)
    /\ rng = NoRng
    /\ legs = << >>
    /\ microenv = NoField
    /\ scan = NoScan
    /\ reloaded = NoReloads

GrowthBegin ==
    /\ model.step_count < MaxGrowthSteps
    /\ ModelStart

NextGrowth ==
    \/ GrowthBegin
    \/ ModelEnd

SpecGrowth == InitGrowth /\ [][NextGrowth]_vars

\* The daughter appended in the current step, if a cell divided in it
Daughter == cells[Len(cells)]

\* C21 as stated: in a model step update_growth is called only with cells that
\* are alive and VIABLE at the time of the call.
C21_GrowthCheckOnlyForViable ==
    \A c \in DOMAIN model.growth_checks : model.growth_checks[c] = "viable"

\* C21 as the code has it: in a model step update_growth is called with every
\* cell that was alive when its iteration began, whatever its phase after
\* update_oxygen_status and absorb_drug; divide is called only with a cell that
\* is VIABLE (hence alive) at that time, the only cells update_growth answers
\* true for, so a cell that is HYPOXIC or died earlier in the same step never
\* produces a daughter.
C21_OnlyViableCellsDivide ==
    /\ [](model.divided # None =>
            /\ model.divided \in DOMAIN model.growth_checks
            /\ model.growth_checks[model.divided] = "viable")
    /\ [][model'.step_count # model.step_count =>
            /\ DOMAIN model'.growth_checks = {c \in DOMAIN cells : cells[c].is_alive}
            /\ Len(cells') = Len(cells) + (IF model'.divided = None THEN 0 ELSE 1)
            /\ model'.divided # None =>
                  /\ cells'[Len(cells')].generation
                        = cells[model'.divided].generation + 1
                  /\ cells'[Len(cells')].cell_type = cells[model'.divided].cell_type
                  /\ cells[model'.divided].is_alive]_vars

\* A step in which a viable cell divided while update_growth was also called with
\* a cell that had turned HYPOXIC and with a cell the drug had killed in the step
C21_Witness ==
    /\ model.pc = "nanobots" /\ model.divided # None
    /\ Daughter.generation = 1 /\ Daughter.phase = "viable"
    /\ \E c \in DOMAIN model.growth_checks : model.growth_checks[c] = "hypoxic"
    /\ \E c \in DOMAIN model.growth_checks :
          /\ model.growth_checks[c] = "apoptotic"
          /\ cells[c].time_of_death = "apoptosis"

----------------------------------------------------------------------------
(* SpecImmune: model.step() of a long run with no nanobots, in timesteps of   *)
(* hours, so that the immune cells outlive their lifespans (12 to 48 hours)   *)

\* Timesteps of 5 and 12 hours; 12 hours is the lifespan of an NK cell, half
\* that of a T cell
AgeingDts == {3000, 7200}

\* The 5 immune cells: an NK cell and a T cell among the tumor cells, within
\* attack range of all of them, the others away from them
ImmuneMixed ==
    << NewImmuneCell(At(-42, 2), "nk_cell", 6),
       NewImmuneCell(At(40, -5), "macrophage", 4),
       NewImmuneCell(At(-38, 0), "t_cell", 8),
       NewImmuneCell(At(10, -40), "t_cell", 3),
       NewImmuneCell(At(20, 40), "dendritic", 5) >>

MaxImmuneSteps == 6

InitImmune ==
    /\ geometry = Tumor50
    /\ cells = InitialCells
    /\ immune = ImmuneMixed
    /\ nanobots = << >>
    /\ model = NewModel(FALSE, 38)
    /\ twin = NoTwin
    /\ dt \in AgeingDts
    /\ policy = FALSE
    /\ errors = 0
    /\ calls = 0
    /\ steps = 0
    /\ op = Op("init", None)
    /\ rng = NoRng
    /\ legs = << >>
    /\ microenv = NoField
    /\ scan = NoScan
    /\ reloaded = NoReloads

ImmuneBegin ==
    /\ model.step_count < MaxImmuneSteps
    /\ ModelStart

NextImmune ==
    \/ ImmuneBegin
    \/ ModelEnd

SpecImmune == InitImmune /\ [][NextImmune]_vars

\* C22: an immune cell whose age exceeds its lifespan is inactive, and an
\* inactive immune cell stays as it is in every later state: it stays inactive,
\* does not age or retarget, attacks no tumor cell and secretes nothing in any
\* later model step, and stays in the immune cell collection.
C22_InactiveImmuneCellFrozen ==
    /\ [](\A i \in DOMAIN immune :
            immune[i].age > lifespan(immune[i].cell_type) => ~immune[i].is_active)
    /\ [][/\ Len(immune') = Len(immune)
          /\ \A i \in DOMAIN immune :
                ~immune[i].is_active =>
                   /\ immune'[i] = immune[i]
                   /\ model'.step_count # model.step_count =>
                         /\ i \notin model'.attacked
                         /\ i \notin model'.secreted]_vars

\* A later step of a run in which the NK cell, past its lifespan and inactive,
\* has a living tumor cell within its attack range and did not attack it or
\* secrete, while the T cell next to it, still active, attacked and secreted
C22_Witness ==
    /\ model.pc = "nanobots" /\ model.step_count >= 3
    /\ Len(immune) = 5
    /\ ~immune[1].is_active /\ immune[1].age > lifespan("nk_cell")
    /\ \E c \in DOMAIN cells :
          /\ cells[c].is_alive
          /\ Dist2(immune[1].position, cells[c].position) < AttackRange * AttackRange
    /\ 1 \notin model.attacked /\ 1 \notin model.secreted
    /\ immune[3].is_active /\ 3 \in model.attacked /\ 3 \in model.secreted

----------------------------------------------------------------------------
(* The order of the parts of model.step() (SpecQueen) *)

\* The parts of a step of the model in the order of step(): the queen only when
\* due, one step for every nanobot
PhaseOrder ==
    << "reset", "tumor_cells", "immune_cells", "vessel_sources" >>
      \o (IF queen_due(model.queen, model.step_count) THEN << "queen" >> ELSE << >>)
      \o [n \in DOMAIN nanobots |-> "nanobot"]
      \o << "integrate", "metrics" >>

\* The oxygen the cells of set S consumed when _update_tumor_cells handled them,
\* from the phases they had then
RECURSIVE ConsumedBy(_)
ConsumedBy(S) ==
    IF S = {} THEN 0
    ELSE LET c == CHOOSE k \in S : TRUE
             rate == oxygen_uptake_rate(cells[c].cell_type) * dt
         IN  (IF model.growth_checks[c] = "viable" THEN rate * 10
              ELSE IF model.growth_checks[c] = "hypoxic" THEN rate * 3
              ELSE 0) + ConsumedBy(S \ {c})

\* What the cells and the vessels have put into the buffers b in the current step
CellAndVesselDeposits(b) ==
    /\ b.oxygen = VesselOxygenSource * Len(Vessels)
    /\ b.oxygen_sink = ConsumedBy(DOMAIN model.growth_checks)

\* C23: in every model step the parts run in the order reset of the buffers,
\* tumor cells, immune cells, vessel sources, queen (when due), one step of every
\* nanobot, integration, metrics, each once: what has run of a step is always an
\* initial part of that order, and all of it once the step has returned. The
\* buffers hold the deposits of the current step only: those of its cells and
\* vessels from the start of the nanobot loop on, the nanobots' added to them,
\* and the integration applies exactly what the buffers hold and leaves them empty.
C23_PhasesInFixedOrder ==
    /\ [](model.step_count > 0 =>
            /\ Len(model.phases) <= Len(PhaseOrder)
            /\ model.phases = SubSeq(PhaseOrder, 1, Len(model.phases))
            /\ (model.pc = "idle" /\ ~model.halted) =>
                  /\ model.phases = PhaseOrder
                  /\ model.env_steps = model.step_count
                  /\ model.metrics_step = model.step_count
                  /\ CellAndVesselDeposits(model.integrated)
                  /\ model.sources = NoSources
            /\ model.pc = "nanobots" => CellAndVesselDeposits(model.sources))
    /\ [][/\ model.pc = "nanobots" /\ model'.pc = "nanobots" =>
                \A f \in DOMAIN NoSources : model'.sources[f] >= model.sources[f]
          /\ model.pc = "nanobots" /\ model'.pc = "idle" /\ ~model'.halted =>
                model'.integrated = model.sources]_vars

\* The tenth step of a run with a queen has returned: the queen was asked after
\* the vessel sources and before the nanobots, and the integration applied the
\* oxygen sinks and toxicity of the cells, the oxygen of the vessels and the drug
\* a nanobot released in that step
C23_Witness ==
    /\ op.name = "model_end" /\ model.step_count = QueenInterval /\ model.queen
    /\ model.phases[5] = "queen" /\ Len(model.phases) = 9
    /\ model.integrated.oxygen_sink > 0 /\ model.integrated.oxygen > 0
    /\ model.integrated.toxicity > 0 /\ model.integrated.drug > 0

----------------------------------------------------------------------------
(* SpecSeeded: run_tumor_simulation called twice with the same configuration, *)
(* decision policy and telemetry disabled; every value the runs draw comes    *)
(* from the seeded generators                                                 *)

\* The values a call of a generator can return, in the abstract: which of the
\* outcomes of the draw it selects
RawValues == 0..1

MaxSeededSteps == 2

\* The length of the stream, after which it repeats: one value more than a run
\* draws (one for the construction of the model, and in every step one for the
\* cells and one for the nanobot)
StreamLength == 2 + 2 * MaxSeededSteps

\* "np.random.seed(42); random.seed(42)": the generators start their stream anew
reseed_missing(g) == g

reseed(g) == [g EXCEPT !.pos = 0]

\* The value the next call of a generator returns, and the generators after it
Take(g) == g.stream[(g.pos % Len(g.stream)) + 1]
Advance(g) == [g EXCEPT !.pos = @ + 1]

\* The element of the finite set S that the raw value v selects
RECURSIVE Pick(_, _)
Pick(S, v) ==
    LET first == CHOOSE x \in S : TRUE
    IN  IF v % Cardinality(S) = 0 THEN first ELSE Pick(S \ {first}, v - 1)

\* Where the nanobot of a run can start (near a random vessel)
SeededStarts == {NanobotStart, RimStart, At(-60, 30)}

\* What main.py records of the model after a step: state, position and payload
\* of every nanobot and the phase of every cell
Snapshot(r) ==
    [nanobots |-> [n \in DOMAIN r.nanobots |->
                     [state |-> r.nanobots[n].state,
                      position |-> r.nanobots[n].position,
                      drug_payload |-> r.nanobots[n].drug_payload]],
     cells |-> [c \in DOMAIN r.cells |-> r.cells[c].phase]]

\* Before the first run: the configuration (queen, oxygen) is given, the
\* generators are anywhere in some stream
InitSeeded ==
    /\ geometry = Tumor50
    /\ cells = << >>
    /\ immune = << >>
    /\ nanobots = << >>
    /\ \E queen \in BOOLEAN, oxygen \in OxygenSet : model = NewModel(queen, oxygen)
    /\ twin = NoTwin
    /\ dt = 1
    /\ policy = FALSE
    /\ errors = 1
    /\ calls = 0
    /\ steps = 0
    /\ op = Op("init", None)
    /\ \E stream \in [1..StreamLength -> RawValues], pos \in 0..1 :
          rng = [stream |-> stream, pos |-> pos]
    /\ legs = << >>
    /\ microenv = NoField
    /\ scan = NoScan
    /\ reloaded = NoReloads

\* run_tumor_simulation up to its loop: the generators are seeded and the model
\* is built, drawing the places of its agents. The second call comes when the
\* first has returned.
SeededStart ==
    /\ model.pc = "idle"
    /\ Len(legs) = 0 \/ (Len(legs) = 1 /\ Len(legs[1]) = MaxSeededSteps)
    /\ \E g \in {reseed(rng)} :
          /\ nanobots' = << NewNanobot(Pick(SeededStarts, Take(g)), FALSE) >>
          /\ rng' = Advance(g)
    /\ cells' = InitialCells
    /\ immune' = InitialImmune
    /\ model' = NewModel(model.queen, model.oxygen)
    /\ legs' = Append(legs, << >>)
    /\ op' = Op("run_tumor_simulation", Len(legs) + 1)
    /\ UNCHANGED <<reloaded, scan, microenv, geometry, dt, policy, errors, calls, steps, twin>>

\* model.step() from its entry to the nanobot loop, its draws taken from the
\* generators
SeededBegin ==
    /\ Len(legs) > 0 /\ Len(legs[Len(legs)]) < MaxSeededSteps
    /\ model.pc = "idle" /\ ~model.halted
    /\ \E d \in {Pick(BeginDraws(MainRun), Take(rng))} :
         \E r \in {begin_step(MainRun, dt, d.grow, d.kill, policy, d.queen)} :
            /\ SetMain(r)
            /\ op' = Op("model_begin", None)
    /\ rng' = Advance(rng)
    /\ UNCHANGED <<reloaded, scan, microenv, geometry, dt, policy, errors, calls, steps,
                   twin, legs>>

\* The step of the next nanobot of the loop, its draws taken from the generators
SeededNanobot ==
    /\ model.pc = "nanobots" /\ model.next <= Len(nanobots)
    /\ \E w \in {Pick(WithTelemetry(StepDraws(nanobots[model.next], policy), FALSE),
                     Take(rng))} :
       \E r \in {loop_step(MainRun, policy, w, FALSE)},
          o \in {LoopOp(MainRun, w, FALSE)} :
         /\ SetMain(r)
         /\ op' = o
    /\ rng' = Advance(rng)
    /\ UNCHANGED <<reloaded, scan, microenv, geometry, dt, policy, errors, calls, steps,
                   twin, legs>>

\* model.step() after the nanobot loop, and the record main.py makes of the step
SeededEnd ==
    /\ model.pc = "nanobots" /\ model.next > Len(nanobots)
    /\ \E r \in {end_step(MainRun)} :
         /\ SetMain(r)
         /\ legs' = [legs EXCEPT ![Len(legs)] = Append(@, Snapshot(r))]
    /\ op' = Op("model_end", None)
    /\ UNCHANGED <<reloaded, scan, microenv, geometry, dt, policy, errors, calls, steps, twin, rng>>

NextSeeded ==
    \/ SeededStart
    \/ SeededBegin
    \/ SeededNanobot
    \/ SeededEnd

SpecSeeded == InitSeeded /\ [][NextSeeded]_vars

----------------------------------------------------------------------------
(* SpecCompare: compare_queen_performance runs its two legs in the two worker *)
(* threads of a ThreadPoolExecutor; each leg seeds the generators of the      *)
(* process, then builds and steps its own model                               *)

\* The values a leg draws while it builds and steps its model
MaxLegDraws == 3

\* The stream of the generators after seed(42) repeats after this many values
CompareStreamLength == MaxLegDraws + 1

\* A leg submitted to the executor: where it is, and the values its model has
\* drawn so far
NewLeg(with_queen) == [pc |-> "submitted", with_queen |-> with_queen, drawn |-> << >>]

\* model.metrics["food_collected"] of a leg: determined by the values its model
\* drew (a draw of 1 stands for a step that collected food)
RECURSIVE food_collected(_)
food_collected(drawn) ==
    IF drawn = << >> THEN 0 ELSE Head(drawn) + food_collected(Tail(drawn))

\* What a leg collects when no other thread touches the generators between its
\* seeding and its end
AloneResult == food_collected(SubSeq(rng.stream, 1, MaxLegDraws))

InitCompare ==
    /\ geometry = Tumor50
    /\ cells = << >>
    /\ immune = << >>
    /\ nanobots = << >>
    /\ model = NoModel
    /\ twin = NoTwin
    /\ dt = 1
    /\ policy = FALSE
    /\ errors = 0
    /\ calls = 0
    /\ steps = 0
    /\ op = Op("init", None)
    /\ \E stream \in [1..CompareStreamLength -> RawValues], pos \in 0..1 :
          rng = [stream |-> stream, pos |-> pos]
    \* queen_params and no_queen_params
    /\ legs = << NewLeg(TRUE), NewLeg(FALSE) >>
    /\ microenv = NoField
    /\ scan = NoScan
    /\ reloaded = NoReloads

\* _run_comparison_leg: "np.random.seed(42); random.seed(42)"
LegSeed(l) ==
    /\ legs[l].pc = "submitted"
    /\ rng' = reseed(rng)
    /\ legs' = [legs EXCEPT ![l].pc = "running"]
    /\ op' = Op("seed", l)
    /\ UNCHANGED <<reloaded, scan, microenv, cells, immune, nanobots, geometry, dt, policy,
                   errors, calls, steps, model, twin>>

\* _run_comparison_leg: the model of the leg, being built or stepped, draws a value
LegDraw(l) ==
    /\ legs[l].pc = "running" /\ Len(legs[l].drawn) < MaxLegDraws
    /\ rng' = Advance(rng)
    /\ legs' = [legs EXCEPT ![l].drawn = Append(@, Take(rng))]
    /\ op' = Op("draw", l)
    /\ UNCHANGED <<reloaded, scan, microenv, cells, immune, nanobots, geometry, dt, policy,
                   errors, calls, steps, model, twin>>

\* _run_comparison_leg: "result = model.metrics["food_collected"]; return result"
LegReturn(l) ==
    /\ legs[l].pc = "running" /\ Len(legs[l].drawn) = MaxLegDraws
    /\ legs' = [legs EXCEPT ![l].pc = "done"]
    /\ op' = [Op("return", l) EXCEPT !.arg = food_collected(legs[l].drawn)]
    /\ UNCHANGED <<reloaded, scan, microenv, cells, immune, nanobots, geometry, dt, policy,
                   errors, calls, steps, model, twin, rng>>

NextCompare ==
    \E l \in DOMAIN legs : LegSeed(l) \/ LegDraw(l) \/ LegReturn(l)

SpecCompare == InitCompare /\ [][NextCompare]_vars

\* C25: under every interleaving of the two threads, the result of each leg is
\* the result the leg produces when it runs alone with the same seed.
C25_LegsIndependent ==
    \A l \in DOMAIN legs :
       legs[l].pc = "done" => food_collected(legs[l].drawn) = AloneResult

----------------------------------------------------------------------------
(* SpecField: the oxygen and toxicity fields of a run, voxel by voxel, on the *)
(* grid of a model built with voxel_size 40 (4 x 4 voxels)                    *)

\* "voxel_size" of TumorNanobotModel, and the voxels per axis it gives the domain
FieldVoxelSize == 40
GridSize == DomainSize \div FieldVoxelSize
Voxels == (0..(GridSize - 1)) \X (0..(GridSize - 1))

\* Microenvironment.position_to_voxel: clamped to the valid index range
position_to_voxel(p) ==
    << Clip(p[1] \div FieldVoxelSize, 0, GridSize - 1),
       Clip(p[2] \div FieldVoxelSize, 0, GridSize - 1) >>

\* A voxel on the edge of the domain
IsEdge(v) == v[1] \in {0, GridSize - 1} \/ v[2] \in {0, GridSize - 1}

\* The fields modelled: the one that receives sinks, and one that only receives
\* sources
Substrates == {"oxygen", "toxicity_signal"}

\* Boundary concentration of a field, 1e-2 units: 38.0 for oxygen
boundary_value(name) == IF name = "oxygen" THEN 3800 ELSE 0

\* decay_rate of a field, 1e-2 per minute: 0.2 for toxicity_signal
decay_rate(name) == IF name = "oxygen" THEN 10 ELSE 20

\* D * dt / dx^2 of a field, in quarters: 1/4 and 1/2
DiffusionNumbers == {1, 2}

\* Concentrations (1e-2 mmHg) the inner voxels of the oxygen field hold when the
\* steps observed begin
FieldOxygen == {0, 500, 3800}

\* A field: concentrations and the source and sink buffers
NewField(name, inner) ==
    [ conc |-> [v \in Voxels |-> IF IsEdge(v) THEN boundary_value(name) ELSE inner[v]],
      source |-> [v \in Voxels |-> 0],
      sink |-> [v \in Voxels |-> 0] ]

\* SubstrateField.add_source / add_sink: accumulate into the buffer of the voxel
add_source(f, v, amount) == [f EXCEPT !.source[v] = @ + amount]
add_sink(f, v, amount) == [f EXCEPT !.sink[v] = @ + amount]

\* reset_all_sources_sinks of one field
reset_sources_sinks(f) ==
    [f EXCEPT !.source = [v \in Voxels |-> 0], !.sink = [v \in Voxels |-> 0]]

\* get_concentration_at('oxygen', position), in mmHg
oxygen_at(env, p) == env.substrates["oxygen"].conc[position_to_voxel(p)] \div 100

\* The loop of _update_tumor_cells from cell i on: every living cell is updated
\* with the oxygen of its voxel, then adds its oxygen sink and its toxicity source
RECURSIVE field_cell_deposits(_, _, _, _)
field_cell_deposits(env, cs, dtv, i) ==
    IF i > Len(cs) THEN [env |-> env, cells |-> cs]
    ELSE IF ~cs[i].is_alive THEN field_cell_deposits(env, cs, dtv, i + 1)
    ELSE \* bound once
         Only({field_cell_deposits(
                  [env EXCEPT
                     !.substrates["oxygen"] =
                        add_sink(@, position_to_voxel(c.position),
                                 oxygen_consumption(c, dtv)),
                     !.substrates["toxicity_signal"] =
                        IF toxicity_amount(c, 0) > 0
                        THEN add_source(@, position_to_voxel(c.position),
                                        100 * toxicity_amount(c, 0))
                        ELSE @],
                  [cs EXCEPT ![i] = c], dtv, i + 1) :
               c \in {update_cell(cs[i], oxygen_at(env, cs[i].position), 0, dtv, FALSE)}})

\* _apply_vessel_sources from vessel i on
RECURSIVE field_vessel_sources(_, _)
field_vessel_sources(env, i) ==
    IF i > Len(Vessels) THEN env
    ELSE field_vessel_sources(
            [env EXCEPT !.substrates["oxygen"] =
                           add_source(@, position_to_voxel(Vessels[i]), VesselOxygenSource)],
            i + 1)

\* The concentration of the neighbour of voxel v in direction d (the voxel itself
\* past the edge of the domain)
neighbour(conc, v, d) ==
    conc[<< Clip(v[1] + d[1], 0, GridSize - 1), Clip(v[2] + d[2], 0, GridSize - 1) >>]

\* The discrete Laplacian stencil at voxel v
laplacian(conc, v) ==
    neighbour(conc, v, <<1, 0>>) + neighbour(conc, v, <<-1, 0>>)
      + neighbour(conc, v, <<0, 1>>) + neighbour(conc, v, <<0, -1>>) - 4 * conc[v]

\* The clamp of SubstrateField.step without effect
clamp_missing(x) == x

\* The clamp of SubstrateField.step: concentration >= 0
clamp(x) == Max(0, x)

\* SubstrateField.step(dt) at one voxel: diffusion, first-order decay
\* (C -= decay_rate * C * dt), sources and sinks, boundary value at the edge of
\* the domain, clamp
stepped_voxel(name, f, number, dtv, v) ==
    Only({ clamp(IF IsEdge(v) THEN boundary_value(name)
                 ELSE diffused - ((decay_rate(name) * diffused * dtv) \div 1000)
                        + f.source[v] - f.sink[v]) :
           diffused \in {f.conc[v] + ((number * laplacian(f.conc, v)) \div 4)} })

\* SubstrateField.step(dt): every voxel stepped, then the buffers cleared
substrate_step(name, f, number, dtv) ==
    reset_sources_sinks([f EXCEPT !.conc = [v \in Voxels |->
                                              stepped_voxel(name, f, number, dtv, v)]])

\* Model steps of one behaviour
MaxFieldSteps == 3

InitField ==
    /\ geometry = Tumor50
    /\ cells = InitialCells
    /\ immune = << >>
    /\ nanobots = << >>
    /\ model = NoModel
    /\ twin = NoTwin
    /\ dt \in DtSet
    /\ policy = FALSE
    /\ errors = 0
    /\ calls = 0
    /\ steps = 0
    /\ op = Op("init", None)
    /\ rng = NoRng
    /\ legs = << >>
    /\ scan = NoScan
    /\ reloaded = NoReloads
    /\ \E number \in DiffusionNumbers,
          inner \in [{v \in Voxels : ~IsEdge(v)} -> FieldOxygen] :
          microenv = [ number |-> number,
                       substrates |->
                          [name \in Substrates |->
                             NewField(name, IF name = "oxygen" THEN inner
                                            ELSE [v \in DOMAIN inner |-> 0])],
                       \* the oxygen field as the last step of the fields found it
                       before |-> NewField("oxygen", inner) ]

\* TumorNanobotModel.step up to the nanobot loop, as far as it touches the
\* fields: the buffers reset, the cells updated and their deposits added, the
\* vessel sources added
FieldDeposits ==
    /\ op.name \in {"init", "integrate"}
    /\ steps < MaxFieldSteps
    /\ \E r \in {field_cell_deposits(
                    [microenv EXCEPT !.substrates =
                        [name \in Substrates |-> reset_sources_sinks(@[name])]],
                    cells, dt, 1)} :
          /\ microenv' = field_vessel_sources(r.env, 1)
          /\ cells' = r.cells
    /\ steps' = steps + 1
    /\ op' = Op("deposits", None)
    /\ UNCHANGED <<reloaded, scan, immune, nanobots, geometry, dt, policy, errors, calls, model,
                   twin, rng, legs>>

\* "self.microenv.step()": every field advanced
FieldIntegrate ==
    /\ op.name = "deposits"
    /\ microenv' =
          [microenv EXCEPT
             !.before = microenv.substrates["oxygen"],
             !.substrates = [name \in Substrates |->
                               substrate_step(name, @[name], microenv.number, dt)]]
    /\ op' = Op("integrate", None)
    /\ UNCHANGED <<reloaded, scan, cells, immune, nanobots, geometry, dt, policy, errors, calls,
                   steps, model, twin, rng, legs>>

NextField == FieldDeposits \/ FieldIntegrate

SpecField == InitField /\ [][NextField]_vars

\* C26: after every model step every voxel of every field holds a concentration
\* >= 0, also where the oxygen sinks of the step exceeded the oxygen present.
C26_ConcentrationsNonNegative ==
    \A name \in Substrates : \A v \in Voxels : microenv.substrates[name].conc[v] >= 0

\* A step has just applied, in an inner voxel, oxygen sinks larger than the
\* oxygen and the sources of the voxel, and left the voxel at 0
C26_Witness ==
    /\ op.name = "integrate"
    /\ \E v \in Voxels :
          /\ ~IsEdge(v)
          /\ microenv.before.sink[v] > microenv.before.conc[v] + microenv.before.source[v]
          /\ microenv.before.conc[v] > 0
          /\ microenv.substrates["oxygen"].conc[v] = 0

----------------------------------------------------------------------------
(* SpecBrats: a tumor geometry requested from a BraTS segmentation            *)

\* Labels of a segmentation: 0 background, 1 necrosis, 2 edema, 4 enhancing
BratsLabels == {0, 1, 2, 4}

\* Voxels of the label arrays tried (2 x 2 x 1) and their spacings in mm
ScanVoxels == {<<0, 0, 0>>, <<0, 1, 0>>, <<1, 0, 0>>, <<1, 1, 0>>}
ScanSpacings == {<<1, 1, 1>>, <<2, 2, 1>>}

\* create_brats_tumor_geometry(segmentation_array, voxel_spacing, cell_density):
\* "raise NotImplementedError(...)" is its whole body
create_brats_tumor_geometry(segmentation_array, voxel_spacing) ==
    [raised |-> TRUE, tumor_cells |-> << >>]

InitBrats ==
    /\ geometry = Tumor50
    /\ cells = << >>
    /\ immune = << >>
    /\ nanobots = << >>
    /\ model = NoModel
    /\ twin = NoTwin
    /\ dt = 1
    /\ policy = FALSE
    /\ errors = 0
    /\ calls = 0
    /\ steps = 0
    /\ op = Op("init", None)
    /\ rng = NoRng
    /\ legs = << >>
    /\ microenv = NoField
    /\ \E labels \in [ScanVoxels -> BratsLabels], spacing \in ScanSpacings :
          scan = [segmentation_array |-> labels, voxel_spacing |-> spacing]
    /\ reloaded = NoReloads

\* A caller passes the loaded array and its spacing to the generator
CreateBratsGeometry ==
    /\ op.name = "init"
    /\ \E r \in {create_brats_tumor_geometry(scan.segmentation_array, scan.voxel_spacing)} :
          /\ cells' = r.tumor_cells
          /\ op' = [Op("create_brats_tumor_geometry", None) EXCEPT !.raised = r.raised]
    /\ UNCHANGED <<reloaded, immune, nanobots, geometry, dt, policy, errors, calls, steps,
                   model, twin, rng, legs, microenv, scan>>

\* test_brats_geometry: the call is made inside "try" (it also passes slice_idx,
\* target_domain_size and voxel_size, which the signature does not accept); any
\* exception is printed and the test returns False
TestBratsGeometry ==
    /\ op.name = "init"
    /\ \E r \in {create_brats_tumor_geometry(scan.segmentation_array, scan.voxel_spacing)} :
          /\ cells' = r.tumor_cells
          /\ op' = [Op("test_brats_geometry", None) EXCEPT !.ret = ~r.raised]
    /\ UNCHANGED <<reloaded, immune, nanobots, geometry, dt, policy, errors, calls, steps,
                   model, twin, rng, legs, microenv, scan>>

NextBrats == CreateBratsGeometry \/ TestBratsGeometry

SpecBrats == InitBrats /\ [][NextBrats]_vars

\* C27: given a label array and its voxel spacing, create_brats_tumor_geometry
\* returns a geometry whose cells sit at the label-bearing voxels, not an error.
C27_BratsGeometryReturned ==
    op.name = "create_brats_tumor_geometry" =>
       /\ ~op.raised
       /\ Len(cells) > 0 <=> \E v \in ScanVoxels : scan.segmentation_array[v] # 0

----------------------------------------------------------------------------
(* The DELIVERING, RELOADING and TARGETING steps of a nanobot (on Spec)       *)

\* The nanobot stepped by the step that leads to the next state, before and
\* after it
Stepping(st) == op'.name = "step" /\ nanobots[op'.id].state = st
Before == nanobots[op'.id]
After == nanobots'[op'.id]

\* C28: a DELIVERING step whose target is missing or dead releases nothing and
\* ends in SEARCHING without target; any other releases min(payload, 3.0) and
\* ends in RETURNING, target cleared and the nearest vessel selected, iff the
\* payload left is below 2.0, else in DELIVERING with the same target.
C28_DeliveringStep ==
    [][Stepping("delivering") =>
         IF Before.target_cell = None \/ ~cells[Before.target_cell].is_alive
         THEN /\ After.drug_payload = Before.drug_payload
              /\ After.total_drug_delivered = Before.total_drug_delivered
              /\ cells' = cells
              /\ After.state = "searching"
              /\ After.target_cell = None
         ELSE /\ Before.drug_payload - After.drug_payload = Min(Before.drug_payload, 3)
              /\ After.total_drug_delivered - Before.total_drug_delivered
                    = Min(Before.drug_payload, 3)
              /\ After.position = Before.position
              /\ IF After.drug_payload < 2
                 THEN /\ After.state = "returning"
                      /\ After.target_cell = None
                      /\ After.target_vessel \in VesselIds
                      /\ \A w \in VesselIds :
                            Dist2(Vessels[After.target_vessel], After.position)
                               <= Dist2(Vessels[w], After.position)
                 ELSE /\ After.state = "delivering"
                      /\ After.target_cell = Before.target_cell
    ]_vars

\* A nanobot has released the 2 ug it had left (less than the 3 ug of a full
\* release) and is on its way to a vessel
C28_Witness ==
    /\ op.name = "step" /\ op.from = "delivering"
    /\ nanobots[op.id].state = "returning"
    /\ nanobots[op.id].drug_payload = 0
    /\ nanobots[op.id].target_cell = None
    /\ nanobots[op.id].target_vessel # None
    /\ nanobots[op.id].deliveries_made > 1

----------------------------------------------------------------------------
(* SpecReload: a nanobot RELOADING at a vessel, from any payload              *)

InitReload ==
    /\ geometry = Tumor50
    /\ cells = InitialCells
    /\ immune = InitialImmune
    /\ \E v \in 1..Len(Tumor50.vessels), payload \in 0..max_payload, llm \in BOOLEAN :
          nanobots = << [NewNanobot(Tumor50.vessels[v], llm) EXCEPT
                            !.state = "reloading", !.drug_payload = payload,
                            !.target_vessel = v] >>
    /\ model = NoModel
    /\ twin = NoTwin
    /\ dt = 1
    /\ policy = FALSE
    /\ errors = 1
    /\ calls = 0
    /\ steps = 0
    /\ op = Op("init", None)
    /\ rng = NoRng
    /\ legs = << >>
    /\ microenv = NoField
    /\ scan = NoScan
    /\ reloaded = NoReloads

\* nanobot.step() of a nanobot that is RELOADING
ReloadStep(n) == nanobots[n].state = "reloading" /\ NanobotStep(n)

NextReload == \E n \in DOMAIN nanobots : ReloadStep(n)

SpecReload == InitReload /\ [][NextReload]_vars

\* C29: a RELOADING step adds 5.0 to the payload, capped at max_payload, and the
\* nanobot leaves RELOADING (to SEARCHING, vessel reference cleared) in exactly
\* the first step after which its payload is >= 0.9 * max_payload: from any
\* payload it has left after at most 4 steps, with a payload >= 18.
C29_ReloadingStep ==
    /\ [](\A n \in DOMAIN nanobots :
             /\ nanobots[n].state = "reloading" => steps < 4
             /\ nanobots[n].state # "reloading" =>
                   /\ nanobots[n].drug_payload >= 18
                   /\ nanobots[n].state = "searching"
                   /\ nanobots[n].target_vessel = None)
    /\ [][Stepping("reloading") =>
            /\ After.drug_payload = Min(Before.drug_payload + 5, 20)
            /\ After.position = Before.position
            /\ IF 10 * After.drug_payload >= 9 * 20
               THEN After.state = "searching" /\ After.target_vessel = None
               ELSE After.state = "reloading"
                    /\ After.target_vessel = Before.target_vessel
       ]_vars

\* A nanobot that arrived empty has left RELOADING with its fourth step, full
C29_Witness ==
    /\ op.name = "step" /\ op.from = "reloading"
    /\ steps = 4
    /\ nanobots[op.id].state = "searching"
    /\ nanobots[op.id].drug_payload = max_payload

----------------------------------------------------------------------------
(* SpecTargeting: a nanobot spawned near the vessel at the right of the tumor *)
(* and one living cell; the cell can receive drug from elsewhere and die      *)

\* Where the nanobot is spawned: the vessel at (52, 0) plus the offset drawn by
\* __init__ (20 um standard deviation, not clamped): on the edge of the domain,
\* 40 um outside it, and inside the tumor
TargetingStarts == { At(80, 0), At(120, 30), At(30, 0) }

\* Where the cell is
TargetingCells == { At(45, -10), At(-23, 0) }

\* Nanobot steps of one behaviour
MaxTargetingSteps == 4

InitTargeting ==
    /\ geometry = Tumor50
    /\ \E p \in TargetingStarts, c \in TargetingCells, t \in CellTypes, llm \in BOOLEAN :
          /\ cells = << NewTumorCell(c, "viable", t) >>
          /\ nanobots = << NewNanobot(p, llm) >>
    /\ immune = << >>
    /\ model = NoModel
    /\ twin = NoTwin
    /\ dt = 1
    /\ policy = FALSE
    /\ errors = 1
    /\ calls = 0
    /\ steps = 0
    /\ op = Op("init", None)
    /\ rng = NoRng
    /\ legs = << >>
    /\ microenv = NoField
    /\ scan = NoScan
    /\ reloaded = NoReloads

TargetingStep(n) ==
    /\ steps < MaxTargetingSteps
    /\ NanobotStep(n)

NextTargeting ==
    \/ \E n \in DOMAIN nanobots : TargetingStep(n)
    \/ \E c \in DOMAIN cells : AccumulateDrug(c)

SpecTargeting == InitTargeting /\ [][NextTargeting]_vars

\* C30: a TARGETING step whose target is dead drops the target and ends in
\* SEARCHING without moving; one whose target is closer than 30 ends in
\* DELIVERING without moving; any other moves the nanobot 30 straight toward the
\* target.
C30_TargetingStep ==
    [][Stepping("targeting") =>
         IF Before.target_cell = None \/ ~cells[Before.target_cell].is_alive
         THEN /\ After.state = "searching"
              /\ After.target_cell = None
              /\ After.position = Before.position
         ELSE IF Dist2(cells[Before.target_cell].position, Before.position) < 30 * 30
         THEN /\ After.state = "delivering"
              /\ After.target_cell = Before.target_cell
              /\ After.position = Before.position
         ELSE /\ After.state = "targeting"
              /\ After.target_cell = Before.target_cell
              /\ After.position =
                    VAdd(Before.position,
                         Scale(VSub(cells[Before.target_cell].position, Before.position),
                               30))
    ]_vars

----------------------------------------------------------------------------
(* SpecReturn: an empty nanobot RETURNING from anywhere on the line between    *)
(* the left rim of the tumor and the vessel at its right, with and without    *)
(* vessels; it is stepped for as long as it is RETURNING                      *)

\* Where the nanobot made its last delivery
ReturnStarts == { At(x, 0) : x \in (-8)..52 }

InitReturn ==
    /\ geometry \in {Tumor50, NoVessels50}
    /\ cells = InitialCells
    /\ immune = << >>
    /\ \E p \in ReturnStarts :
          \* _deliver_drug: target_vessel = find_nearest_vessel(position)
          nanobots = << [NewNanobot(p, FALSE) EXCEPT
                            !.state = "returning", !.drug_payload = 0,
                            !.deliveries_made = 7, !.total_drug_delivered = 20,
                            !.target_vessel =
                               IF geometry.vessels = << >> THEN None
                               ELSE find_nearest_vessel(p)] >>
    /\ model = NoModel
    /\ twin = NoTwin
    /\ dt = 1
    /\ policy = FALSE
    /\ errors = 1
    /\ calls = 0
    /\ steps = 0
    /\ op = Op("init", None)
    /\ rng = NoRng
    /\ legs = << >>
    /\ microenv = NoField
    /\ scan = NoScan
    /\ reloaded = NoReloads

\* nanobot.step() of a nanobot that is RETURNING (the simulation loop steps it
\* for as long as the run lasts: no step is the last one)
ReturnStep(n) ==
    /\ nanobots[n].state = "returning"
    /\ \E out \in {run_step(nanobots[n], n, cells, NoGuidance, policy, NoDraws, model)} :
          /\ nanobots' = [nanobots EXCEPT ![n] = out.bot]
          /\ cells' = out.cells
          /\ model' = out.model
          /\ op' = [Op("step", n) EXCEPT !.from = nanobots[n].state]
    /\ UNCHANGED <<reloaded, immune, geometry, dt, policy, errors, calls, steps, twin, rng,
                   legs, microenv, scan>>

NextReturn == \E n \in DOMAIN nanobots : ReturnStep(n)

SpecReturn == InitReturn /\ [][NextReturn]_vars

\* A RETURNING nanobot is moved
ReturnMove(n) ==
    /\ nanobots[n].state = "returning"
    /\ \E x, y \in 0..DomainSize : nanobots' = [nanobots EXCEPT ![n].position = <<x, y>>]

\* The loop of the run steps every nanobot in every model step: a nanobot that
\* is RETURNING is stepped again (weak fairness of ReturnStep(1), whose
\* enabling condition is written out), and one that stays RETURNING keeps
\* being moved
FairSpecReturn ==
    /\ SpecReturn
    /\ ([]<>(nanobots[1].state # "returning") \/ []<><<ReturnStep(1)>>_vars)
    /\ WF_nanobots(ReturnMove(1))

\* C31: with a vessel present a RETURNING nanobot eventually comes within 10 of
\* the vessel and enters RELOADING, from every starting distance; with no
\* vessel it is back in SEARCHING after one step.
C31_ReturningReachesVessel ==
    /\ [][Stepping("returning") /\ geometry.vessels = << >>
             => After.state = "searching"]_vars
    /\ (nanobots[1].state = "returning" /\ geometry.vessels # << >>)
          ~> (nanobots[1].state = "reloading")

----------------------------------------------------------------------------
(* SpecSearch: the SEARCHING step of one nanobot, with and without a guidance *)
(* entry, a decision policy and a payload above the minimum                   *)

\* Where the nanobot is: among the cells, 103 um from the nearest cell (the
\* hypoxic one), and farther than 120 um from every cell
SearchStarts == { At(-30, 10), At(0, 0), At(80, 0), At(80, 60) }

\* Payloads of a SEARCHING nanobot: full, after five releases, after six
SearchPayloads == {20, 5, 2}

\* SEARCHING steps of one behaviour
MaxSearchSteps == 2

InitSearch ==
    /\ geometry = Tumor50
    /\ cells = InitialCells
    /\ immune = << >>
    /\ \E p \in SearchStarts, payload \in SearchPayloads, llm \in BOOLEAN :
          nanobots = << [NewNanobot(p, llm) EXCEPT !.drug_payload = payload] >>
    /\ model = NoModel
    /\ twin = NoTwin
    /\ dt = 1
    /\ policy \in BOOLEAN
    /\ errors = 0
    /\ calls = 0
    /\ steps = 0
    /\ op = Op("init", None)
    /\ rng = NoRng
    /\ legs = << >>
    /\ microenv = NoField
    /\ scan = NoScan
    /\ reloaded = NoReloads

\* nanobot.step(guidance) of a SEARCHING nanobot; op.arg tells whether the
\* guidance holds an entry for it
SearchStep(n) ==
    /\ nanobots[n].state = "searching"
    /\ steps < MaxSearchSteps
    /\ \E guided \in BOOLEAN, w \in StepDraws(nanobots[n], policy) :
         \E out \in {run_step(nanobots[n], n, cells,
                              IF guided THEN [k \in {n} |-> <<0, speed>>]
                              ELSE NoGuidance, policy, w, model)} :
            /\ errors + out.logged <= MaxErrors
            /\ steps' = steps + 1
            /\ nanobots' = [nanobots EXCEPT ![n] = out.bot]
            /\ cells' = out.cells
            /\ model' = out.model
            /\ errors' = errors + out.logged
            /\ op' = [Op("step", n) EXCEPT
                        !.raised = out.raised, !.from = nanobots[n].state,
                        !.logged = out.logged,
                        !.arg = IF guided THEN 1 ELSE 0,
                        !.reply = IF out.asked THEN w.reply ELSE "none",
                        !.action = IF out.asked THEN ask_llm_for_decision(w.reply)
                                   ELSE "none"]
    /\ UNCHANGED <<reloaded, immune, geometry, dt, policy, calls, twin, rng, legs, microenv,
                   scan>>

NextSearch == \E n \in DOMAIN nanobots : SearchStep(n)

SpecSearch == InitSearch /\ [][NextSearch]_vars

\* The living cells inside the tumor boundary within 100 of nanobot b
Lockable(b) ==
    {c \in DOMAIN cells : /\ cells[c].is_alive
                          /\ Dist2(cells[c].position, Center) <= TumorRadius * TumorRadius
                          /\ Dist2(cells[c].position, b.position) <= 100 * 100}

\* C32: a SEARCHING step of a nanobot with payload > 2.0 and a living cell
\* inside the tumor within 100 locks the nearest such cell, ends in TARGETING
\* and does not move, whatever the guidance holds and whether or not a policy
\* is available; only without such a lock is the guidance looked at, the policy
\* only if the guidance has no entry, the default movement only after both.
C32_SearchLocksFirst ==
    [][Stepping("searching") =>
         IF Before.drug_payload > 2 /\ Lockable(Before) # {}
         THEN /\ After.state = "targeting"
              /\ After.target_cell \in Lockable(Before)
              /\ \A c \in Lockable(Before) :
                    Dist2(cells[After.target_cell].position, Before.position)
                       <= Dist2(cells[c].position, Before.position)
              /\ After.position = Before.position
              /\ ~op'.raised
              /\ op'.reply = "none"
         ELSE /\ op'.arg = 1 => op'.reply = "none" /\ After.state = "searching"
              /\ op'.reply # "none" => Before.is_llm_controlled /\ policy
              /\ After.position # Before.position =>
                    /\ op'.arg = 0
                    /\ Before.is_llm_controlled /\ policy => op'.reply # "none"
    ]_vars

\* A policy-controlled nanobot with a guidance entry and a policy at hand has
\* locked a cell without asking the policy
C32_Witness ==
    /\ op.name = "step" /\ op.from = "searching"
    /\ op.arg = 1 /\ policy /\ nanobots[op.id].is_llm_controlled
    /\ nanobots[op.id].state = "targeting"
    /\ nanobots[op.id].target_cell # None
    /\ op.reply = "none"

----------------------------------------------------------------------------
(* SpecCycle: one rule-based nanobot DELIVERING to a cell of the small tumor  *)
(* (10 um away) with 5 or 8 ug left, stepped for as long as the run lasts     *)

InitCycle ==
    /\ geometry = Tumor50
    /\ cells = InitialCells
    /\ immune = << >>
    /\ \E c \in DOMAIN InitialCells, payload \in {5, 8} :
          nanobots = << [NewNanobot(VAdd(InitialCells[c].position, <<10, 0>>), FALSE)
                           EXCEPT !.state = "delivering", !.target_cell = c,
                                  !.drug_payload = payload,
                                  !.total_drug_delivered = InitialPayload - payload,
                                  !.deliveries_made = (InitialPayload - payload) \div 3] >>
    /\ model = NoModel
    /\ twin = NoTwin
    /\ dt = 1
    /\ policy = FALSE
    /\ errors = 1
    /\ calls = 0
    /\ steps = 0
    /\ op = Op("init", None)
    /\ rng = NoRng
    /\ legs = << >>
    /\ microenv = NoField
    /\ scan = NoScan
    /\ reloaded = NoReloads

\* nanobot.step() in the loop of a run without queen: no step is the last one
CycleStep(n) ==
    /\ \E w \in StepDraws(nanobots[n], policy) :
         \E out \in {run_step(nanobots[n], n, cells, NoGuidance, policy, w, model)} :
            /\ nanobots' = [nanobots EXCEPT ![n] = out.bot]
            /\ cells' = out.cells
            /\ model' = [out.model EXCEPT !.sources = NoSources]
            /\ op' = [Op("step", n) EXCEPT !.from = nanobots[n].state]
    /\ UNCHANGED <<reloaded, immune, geometry, dt, policy, errors, calls, steps, twin, rng,
                   legs, microenv, scan>>

NextCycle == \E n \in DOMAIN nanobots : CycleStep(n)

SpecCycle == InitCycle /\ [][NextCycle]_vars

\* What CycleStep(n) does to the nanobot
CycleMove(n) ==
    \E w \in StepDraws(nanobots[n], policy) :
       nanobots' = [nanobots EXCEPT
                      ![n] = step(nanobots[n], n, cells, NoGuidance, policy, w).bot]

\* The loop of the run steps the nanobot in every model step
FairSpecCycle == SpecCycle /\ WF_nanobots(CycleMove(1))

\* Back in SEARCHING with at least 90% of max_payload
Reloaded(n) ==
    nanobots[n].state = "searching" /\ 10 * nanobots[n].drug_payload >= 9 * max_payload

\* C33: with a vessel present and no decision policy, a nanobot whose payload
\* has fallen to 2.0 or less eventually reaches RELOADING, and from there
\* SEARCHING with at least 90% of max_payload.
C33_LowPayloadReloads ==
    /\ (nanobots[1].drug_payload <= 2) ~> (nanobots[1].state = "reloading")
    /\ (nanobots[1].state = "reloading") ~> Reloaded(1)

----------------------------------------------------------------------------
(* SpecDeliver: a nanobot DELIVERING to a living cell of any type and        *)
(* resistance, with every payload a delivery can leave                       *)

\* Payloads of a nanobot in DELIVERING: 20 less a number of 3 ug releases
DeliverPayloads == {20, 17, 14, 11, 8, 5, 2}

\* resistance_level of the target: none, the initial one of its type, full
DeliverResistances(t) == {0, initial_resistance_level(t), 1000}

MaxDeliverSteps == 3

InitDeliver ==
    /\ geometry = Tumor50
    /\ \E t \in CellTypes, acc \in {0, UgUnit} :
         \E res \in DeliverResistances(t) :
           cells = [InitialCells EXCEPT
                      ![1] = [NewTumorCell(At(-50, 0), "viable", t) EXCEPT
                                !.resistance_level = res, !.accumulated_drug = acc]]
    /\ immune = << >>
    /\ \E payload \in DeliverPayloads, llm \in BOOLEAN :
          nanobots = << [NewNanobot(At(-40, 0), llm)
                           EXCEPT !.state = "delivering", !.target_cell = 1,
                                  !.drug_payload = payload] >>
    /\ model = NoModel
    /\ twin = NoTwin
    /\ dt = 1
    /\ policy \in BOOLEAN
    /\ errors = IF policy THEN 0 ELSE 1
    /\ calls = 0
    /\ steps = 0
    /\ op = Op("init", None)
    /\ rng = NoRng
    /\ legs = << >>
    /\ microenv = NoField
    /\ scan = NoScan
    /\ reloaded = NoReloads

\* nanobot.step() of the delivering nanobot and of what it does next
DeliverStep(n) ==
    /\ steps < MaxDeliverSteps
    /\ \E w \in StepDraws(nanobots[n], policy) :
         \E out \in {run_step(nanobots[n], n, cells, NoGuidance, policy, w, model)} :
            /\ nanobots' = [nanobots EXCEPT ![n] = out.bot]
            /\ cells' = out.cells
            /\ model' = [out.model EXCEPT !.sources = NoSources]
            /\ op' = [Op("step", n) EXCEPT !.from = nanobots[n].state]
    /\ steps' = steps + 1
    /\ UNCHANGED <<reloaded, immune, geometry, dt, policy, errors, calls, twin, rng,
                   legs, microenv, scan>>

NextDeliver == \E n \in DOMAIN nanobots : DeliverStep(n)

SpecDeliver == InitDeliver /\ [][NextDeliver]_vars

\* The step releases drug to a living target
Releases ==
    /\ Stepping("delivering")
    /\ Before.target_cell # None
    /\ cells[Before.target_cell].is_alive
    /\ Before.drug_payload > 0

\* C34: a release of drug to a living target leaves the target dead and
\* APOPTOTIC at the end of the step, whatever its type and resistance; a
\* DELIVERING step with a dead target makes no release and leaves for
\* SEARCHING, so a nanobot takes at most two DELIVERING steps in a row.
C34_DeliveryKills ==
    /\ [][Releases => /\ ~cells'[Before.target_cell].is_alive
                      /\ cells'[Before.target_cell].phase = "apoptotic"]_vars
    /\ [][Stepping("delivering") /\ ~Releases
            => After.deliveries_made = Before.deliveries_made
               /\ After.state # "delivering"]_vars
    /\ [][Stepping("delivering") /\ op.name = "step" /\ op.from = "delivering"
            => After.state # "delivering"]_vars

\* The last 2 ug killed a stem cell of full resistance
C34_Witness ==
    /\ op.name = "step" /\ op.from = "delivering"
    /\ nanobots[1].drug_payload = 0
    /\ cells[1].cell_type = "stem_cell" /\ cells[1].resistance_level = 1000
    /\ cells[1].phase = "apoptotic" /\ cells[1].accumulated_drug = 10 * UgUnit

----------------------------------------------------------------------------
(* Acquiring a target and the payload *)

\* C35: a SEARCHING step enters TARGETING only with a payload above the
\* minimum 2.0, on every path, and no nanobot is in TARGETING or DELIVERING
\* with an empty payload.
C35_TargetOnlyWithPayload ==
    /\ [][Stepping("searching") /\ After.state = "targeting"
            => Before.drug_payload > MinTargetPayload]_vars
    /\ [](\A n \in DOMAIN nanobots :
            nanobots[n].state \in {"targeting", "delivering"}
               => nanobots[n].drug_payload > 0)

----------------------------------------------------------------------------
(* Life and phase of a tumor cell (SpecCell) *)

TerminalPhases == {"necrotic", "apoptotic"}

\* C36: a tumor cell is dead exactly when its phase is NECROTIC or APOPTOTIC,
\* whatever killed it: hypoxia, drug of the field, a direct delivery or an
\* immune attack.
C36_DeadIffTerminalPhase ==
    \A c \in DOMAIN cells : ~cells[c].is_alive <=> cells[c].phase \in TerminalPhases

\* A cell killed by the immune cell next to it
C36_Witness ==
    /\ op.name = "immune_update"
    /\ \E c \in DOMAIN cells :
          ~cells[c].is_alive /\ cells[c].time_of_death = "immune_attack"

----------------------------------------------------------------------------
(* SpecBooks: a nanobot on its sixth or seventh delivery, 10 um and 3 um from *)
(* its target, with or without telemetry, and the drug it takes on in         *)
(* _reload_drug added up                                                      *)

MaxBookSteps == 8

\* The cells after the nanobot has killed the first k of them with 3 ug each
AfterKills(k) ==
    [c \in DOMAIN InitialCells |->
        IF c <= k THEN accumulate_drug(InitialCells[c], DeliveryPerTick)
        ELSE InitialCells[c]]

InitBooks ==
    /\ geometry = Tumor50
    /\ immune = InitialImmune
    /\ \E c \in {6, 7}, llm \in BOOLEAN :
          /\ cells = AfterKills(c - 1)
          /\ nanobots = << [NewNanobot(At(-20, 0), llm)
                              EXCEPT !.state = "delivering", !.target_cell = c,
                                     !.drug_payload =
                                         InitialPayload - DeliveryPerTick * (c - 1),
                                     !.total_drug_delivered = DeliveryPerTick * (c - 1),
                                     !.deliveries_made = c - 1] >>
    /\ \E enabled \in BOOLEAN : model = [NoModel EXCEPT !.blockchain_enabled = enabled]
    /\ twin = NoTwin
    /\ dt = 1
    /\ policy \in BOOLEAN
    /\ errors = IF policy THEN 0 ELSE 1
    /\ calls = 0
    /\ steps = 0
    /\ op = Op("init", None)
    /\ rng = NoRng
    /\ legs = << >>
    /\ microenv = NoField
    /\ scan = NoScan
    /\ reloaded = [n \in DOMAIN nanobots |-> 0]

\* nanobot.step() for nanobot n; what a RELOADING step adds to the payload is
\* added to reloaded[n]
BookStep(n) ==
    /\ steps < MaxBookSteps
    /\ \E w \in WithTelemetry(StepDraws(nanobots[n], policy), model.blockchain_enabled) :
         \E out \in {run_step(nanobots[n], n, cells, NoGuidance, policy, w, model)} :
            /\ errors + out.logged <= MaxErrors
            /\ nanobots' = [nanobots EXCEPT ![n] = out.bot]
            /\ cells' = out.cells
            /\ model' = out.model
            /\ errors' = errors + out.logged
            /\ reloaded' = [reloaded EXCEPT ![n] =
                              IF nanobots[n].state = "reloading"
                              THEN @ + out.bot.drug_payload - nanobots[n].drug_payload
                              ELSE @]
            /\ op' = [Op("step", n) EXCEPT !.raised = out.raised,
                                            !.from = nanobots[n].state]
    /\ steps' = steps + 1
    /\ UNCHANGED <<immune, geometry, dt, policy, calls, twin, rng, legs, microenv, scan>>

NextBooks == \E n \in DOMAIN nanobots : BookStep(n)

SpecBooks == InitBooks /\ [][NextBooks]_vars

\* What the step took from the payload
Released == Before.drug_payload - After.drug_payload

\* C37: a DELIVERING step takes from drug_payload exactly what it adds to the
\* sources of the drug field and to total_drug_delivered, and a release counts
\* one delivery; no other step touches the three; so drug_payload +
\* total_drug_delivered is always the initial payload plus what was reloaded.
C37_DrugConserved ==
    /\ [](\A n \in DOMAIN nanobots :
            nanobots[n].drug_payload + nanobots[n].total_drug_delivered
               = InitialPayload + reloaded[n])
    /\ [][Stepping("delivering")
            => /\ Released >= 0
               /\ model'.sources.drug = model.sources.drug + Released
               /\ After.total_drug_delivered = Before.total_drug_delivered + Released
               /\ After.deliveries_made
                     = Before.deliveries_made + (IF Released > 0 THEN 1 ELSE 0)]_vars
    /\ [][op'.name = "step" /\ Before.state # "delivering"
            => /\ model'.sources.drug = model.sources.drug
               /\ After.total_drug_delivered = Before.total_drug_delivered
               /\ After.deliveries_made = Before.deliveries_made]_vars

\* The nanobot has delivered its 20 ug, reloaded 20 ug and searches again
C37_Witness ==
    /\ nanobots[1].state = "searching"
    /\ nanobots[1].total_drug_delivered = 20
    /\ reloaded[1] = 20
    /\ nanobots[1].deliveries_made = 7

----------------------------------------------------------------------------
(* The references a nanobot holds and its state (SpecBooks) *)

\* C38: after every nanobot step target_cell is set exactly when the state is
\* TARGETING or DELIVERING, and target_vessel is set only when the state is
\* RETURNING or RELOADING.
C38_ReferencesFollowState ==
    [][op'.name = "step"
         => /\ After.target_cell # None <=> After.state \in {"targeting", "delivering"}
            /\ After.target_vessel # None => After.state \in {"returning", "reloading"}]_vars

\* A step took the nanobot from RELOADING to SEARCHING, both references cleared,
\* in a run where a report of the nanobot had failed
C38_Witness ==
    /\ op.name = "step" /\ op.from = "reloading"
    /\ nanobots[1].state = "searching"
    /\ nanobots[1].target_cell = None /\ nanobots[1].target_vessel = None
    /\ model.failed_reports > 0

====
